---- MODULE Spec2Model ----
(***************************************************************************)
(* A model of the indexer layer of the vis-framework: the table builder    *)
(* Indexer.make_return, the pairwise IntervalIndexer with its transform    *)
(* real_indexer, and the windowed dissonance classifiers.                  *)
(*                                                                         *)
(* Conventions                                                             *)
(*  - a Python string is a sequence of one-character strings, so that      *)
(*    str(), split() and int() are computed and not assumed;               *)
(*  - numpy.nan in a cell of strings is NaN below, which is no string;     *)
(*  - an offset is a natural number (a count of some smallest duration);   *)
(*  - a pandas.Series is a sequence of <<offset, value>> pairs with        *)
(*    strictly increasing offsets;                                         *)
(*  - a pandas.DataFrame is a record [index, columns, values] where        *)
(*    values[c][r] is the cell of column c at row r.                       *)
(***************************************************************************)
EXTENDS Integers, Sequences, FiniteSets, TLC

VARIABLES
    labels,      \* make_return: the "labels" argument of the last call
    indices,     \* make_return: the "indices" argument of the last call
    ret,         \* make_return: what the last call returned or raised
    ecks,        \* real_indexer: the simultaneity it is given
    simple,      \* real_indexer: reduce to the single-octave size
    qual,        \* real_indexer: prepend the quality
    interv,      \* real_indexer: what it returned or raised
    score,       \* IntervalIndexer._score: the list of the parts' Series
    settings,    \* IntervalIndexer._settings
    indexer_func,  \* IntervalIndexer._indexer_func, by its name
    combinations,  \* IntervalIndexer.run: the part combinations it made
    post,        \* IntervalIndexer.run: the dict it returned
    ind_func,    \* an indexer function of dissonance.py, by its name
    obj,         \* the rows of the window the function is given
    ind_result,  \* the Series the function returned
    table,       \* the DataFrame a dissonance indexer is constructed with
    klass,       \* the class of the dissonance indexer
    indexer,     \* the indexer: what its constructor made or raised
    result,      \* what the indexer's run method returned or raised
    defaults,    \* the default_settings dicts of the classes, which are shared
    calls,       \* the constructor calls of a session, in their order
    built,       \* what the calls made so far constructed or raised
    heap,        \* the DataFrame objects that exist, by their identity
    held,        \* the indexer object that was constructed last
    outcome,     \* the last call on a table: what it was given and what it returned
    mpc,         \* whether the IntervalIndexer was given an MPController
    queue,       \* the worker pool: the jobs that wait, by their position
    running,     \* the worker pool: the jobs that a worker holds
    arrived,     \* the worker pool: the results as they came back, each with its position
    run_result,  \* what run() of the object that was built last returned or raised
    analyses,    \* IndexedPiece._analyses, the stored results by their name
    executed,    \* how many times each indexer of the piece has run
    got,         \* what the get calls on the piece have returned, the latest last
    manager,     \* the WorkflowManager: its shared settings and what load and run keep
    issued       \* the calls made on the manager and how each ended, the latest last

varsMakeReturn == <<labels, indices, ret>>

varsRealIndexer == <<ecks, simple, qual, interv>>

varsInterval == <<score, settings, indexer_func, combinations, post>>

varsIndFunc == <<ind_func, obj, ind_result>>

varsDissonance == <<table, klass, indexer, result>>

varsConstruct == <<defaults, calls, built>>

varsTables == <<heap, held, outcome>>

varsPool == <<mpc, queue, running, arrived>>

varsRan == <<run_result>>

varsPiece == <<analyses, executed, got>>

varsWorkflow == <<manager, issued>>

vars ==
    <<varsMakeReturn, varsRealIndexer, varsInterval, varsIndFunc, varsDissonance,
      varsConstruct, varsTables, varsPool, varsRan, varsPiece, varsWorkflow>>

\* the variables outside each part of the program
outsideMakeReturn ==
    <<varsRealIndexer, varsInterval, varsIndFunc, varsDissonance, varsConstruct,
      varsTables, varsPool, varsRan, varsPiece, varsWorkflow>>

outsideRealIndexer ==
    <<varsMakeReturn, varsInterval, varsIndFunc, varsDissonance, varsConstruct,
      varsTables, varsPool, varsRan, varsPiece, varsWorkflow>>

outsideInterval ==
    <<varsMakeReturn, varsRealIndexer, varsIndFunc, varsDissonance, varsConstruct,
      varsTables, varsPool, varsRan, varsPiece, varsWorkflow>>

outsideIndFunc ==
    <<varsMakeReturn, varsRealIndexer, varsInterval, varsDissonance, varsConstruct,
      varsTables, varsPool, varsRan, varsPiece, varsWorkflow>>

outsideDissonance ==
    <<varsMakeReturn, varsRealIndexer, varsInterval, varsIndFunc, varsConstruct,
      varsTables, varsPool, varsRan, varsPiece, varsWorkflow>>

outsideConstruct ==
    <<varsMakeReturn, varsRealIndexer, varsInterval, varsIndFunc, varsDissonance,
      varsTables, varsPool, varsRan, varsPiece, varsWorkflow>>

outsideTables ==
    <<varsMakeReturn, varsRealIndexer, varsInterval, varsIndFunc,
      varsDissonance, varsConstruct, varsPool, varsRan, varsPiece, varsWorkflow>>

outsidePool ==
    <<varsMakeReturn, varsRealIndexer, varsInterval, varsIndFunc,
      varsDissonance, varsConstruct, varsTables, varsRan, varsPiece, varsWorkflow>>

outsideRan ==
    <<varsMakeReturn, varsRealIndexer, varsInterval, varsIndFunc, varsDissonance,
      varsConstruct, varsTables, varsPool, varsPiece, varsWorkflow>>

outsidePiece ==
    <<varsMakeReturn, varsRealIndexer, varsInterval, varsIndFunc, varsDissonance,
      varsConstruct, varsTables, varsPool, varsRan, varsWorkflow>>

outsideWorkflow ==
    <<varsMakeReturn, varsRealIndexer, varsInterval, varsIndFunc, varsDissonance,
      varsConstruct, varsTables, varsPool, varsRan, varsPiece>>

\* the variables outside an IntervalIndexer and its workers
outsideIntervalPool ==
    <<varsMakeReturn, varsRealIndexer, varsIndFunc, varsDissonance, varsConstruct,
      varsTables, varsRan, varsPiece, varsWorkflow>>

\* the variables outside an object and its run
outsideConstructRan ==
    <<varsMakeReturn, varsRealIndexer, varsInterval, varsIndFunc, varsDissonance,
      varsTables, varsPool, varsPiece, varsWorkflow>>

-----------------------------------------------------------------------------
(* Bounds of the model.                                                    *)

MaxOffset == 2       \* offsets of events are 0..MaxOffset
MaxCols == 2         \* make_return is called with at most MaxCols series
MaxParts == 3        \* an IntervalIndexer is given at most MaxParts parts
MaxEvents == 4       \* the parts of an IntervalIndexer hold at most MaxEvents events
MaxVoices == 3       \* the table of a dissonance indexer has at most MaxVoices voices
MaxRows == 5         \* the table of a dissonance indexer has at most MaxRows rows
MaxLabelled == 3     \* at most MaxLabelled pairs of a simultaneity hold an interval
MaxReports == 2      \* at most MaxReports cells of a row to reconcile hold a label

-----------------------------------------------------------------------------
(* Python values.                                                          *)

NaN == <<"NaN">>

Range(s) == {s[i] : i \in 1..Len(s)}

\* a call that has not returned yet
Pending == [kind |-> "pending"]

\* Python's None, which is no string
None == <<"None">>

Raise(exc) == [kind |-> "raise", exc |-> exc]

isstring(v) == v # NaN

Returned(v) == [kind |-> "return", value |-> v]

Digit == <<"0", "1", "2", "3", "4", "5", "6", "7", "8", "9">>

\* str(n) for an integer n
RECURSIVE str_nat(_)
str_nat(n) ==
    IF n < 10 THEN <<Digit[n + 1]>>
    ELSE str_nat(n \div 10) \o <<Digit[(n % 10) + 1]>>

str_int(n) == IF n < 0 THEN <<"-">> \o str_nat(0 - n) ELSE str_nat(n)

IsDigit(c) == c \in Range(Digit)

DigitValue(c) == CHOOSE d \in 0..9 : Digit[d + 1] = c

\* int(s) for a string of digits
RECURSIVE int_digits(_)
int_digits(s) ==
    IF s = <<>> THEN 0
    ELSE 10 * int_digits(SubSeq(s, 1, Len(s) - 1)) + DigitValue(s[Len(s)])

-----------------------------------------------------------------------------
(* The variables of a part of the program that a specification leaves out. *)

IdleMakeReturn == labels = <<>> /\ indices = [kind |-> "list", list |-> <<>>] /\ ret = Pending

IdleRealIndexer == ecks = <<>> /\ simple = FALSE /\ qual = FALSE /\ interv = Pending

IdleIndFunc == ind_func = "" /\ obj = <<>> /\ ind_result = Pending

IdleDissonance == table = <<>> /\ klass = "" /\ indexer = Pending /\ result = Pending

IdleConstruct == defaults = <<>> /\ calls = <<>> /\ built = <<>>

IdleInterval ==
    /\ score = <<>>
    /\ settings = <<>>
    /\ indexer_func = ""
    /\ combinations = <<>>
    /\ post = Pending

IdleTables == heap = <<>> /\ held = Pending /\ outcome = Pending

IdlePool == mpc = FALSE /\ queue = <<>> /\ running = {} /\ arrived = <<>>

IdleRan == run_result = Pending

IdlePiece == analyses = <<>> /\ executed = <<>> /\ got = <<>>

IdleWorkflow == manager = <<>> /\ issued = <<>>

-----------------------------------------------------------------------------
(* pandas                                                                  *)

SeriesIndex(s) == [i \in 1..Len(s) |-> s[i][1]]

\* Index.union of two sorted duplicate-free indexes
RECURSIVE IndexUnion(_, _)
IndexUnion(a, b) ==
    IF a = <<>> THEN b
    ELSE IF b = <<>> THEN a
    ELSE IF Head(a) < Head(b) THEN <<Head(a)>> \o IndexUnion(Tail(a), b)
    ELSE IF Head(b) < Head(a) THEN <<Head(b)>> \o IndexUnion(a, Tail(b))
    ELSE <<Head(a)>> \o IndexUnion(Tail(a), Tail(b))

\* the outer join of the indexes of a list of Series
RECURSIVE UnionOfIndexes(_)
UnionOfIndexes(objs) ==
    IF objs = <<>> THEN <<>>
    ELSE IndexUnion(SeriesIndex(Head(objs)), UnionOfIndexes(Tail(objs)))

\* the value of Series s at offset o, NaN where s has no such offset
RECURSIVE SeriesAt(_, _)
SeriesAt(s, o) ==
    IF s = <<>> THEN NaN
    ELSE IF Head(s)[1] = o THEN Head(s)[2]
    ELSE SeriesAt(Tail(s), o)

\* the value of Series s sounding at offset o: that of its last event at or
\* before o, NaN before its first event
RECURSIVE SeriesAtOrBefore(_, _)
SeriesAtOrBefore(s, o) ==
    IF s = <<>> \/ Head(s)[1] > o THEN NaN
    ELSE LET later == SeriesAtOrBefore(Tail(s), o)
         IN  IF later = NaN THEN Head(s)[2] ELSE later

\* Series.reindex(index, method='ffill')
ReindexFfill(s, index) == [r \in 1..Len(index) |-> SeriesAtOrBefore(s, index[r])]

\* Series.reindex that carries the last value forward
Reindex_sustaining(s, index) == ReindexFfill(s, index)

\* Series.reindex(index) without a fill method
Reindex(s, index) == [r \in 1..Len(index) |-> SeriesAt(s, index[r])]

\* pandas.concat(objs, axis=1): one column per Series on the outer join of
\* the indexes; an empty list of objects is a ValueError
Concat(objs) ==
    IF objs = <<>> THEN Raise("ValueError")
    ELSE LET index == UnionOfIndexes(objs)
         IN  [kind |-> "frame",
              index |-> index,
              columns |-> [c \in 1..Len(objs) |-> <<"", str_nat(c - 1)>>],
              values |-> [c \in 1..Len(objs) |-> Reindex(objs[c], index)]]

\* pandas.MultiIndex.from_product(((name,), labels))
FromProduct(name, labs) == [c \in 1..Len(labs) |-> <<name, labs[c]>>]

\* "frame.columns = multi_index": a length mismatch is a ValueError
SetColumns(frame, multi_index) ==
    IF Len(multi_index) # Len(frame.values) THEN Raise("ValueError")
    ELSE [frame EXCEPT !.columns = multi_index]

-----------------------------------------------------------------------------
(* Indexer.make_return                                                     *)

ListOf(series) == [kind |-> "list", list |-> series]

\* make_return without its comparison of the two lengths
make_return_unchecked(name, labs, inds) ==
    LET made == IF inds.kind = "frame" THEN inds ELSE Concat(inds.list)
    IN  IF made.kind = "raise" THEN made
        ELSE SetColumns(made, FromProduct(name, labs))

make_return(name, labs, inds) ==
    LET made == IF inds.kind = "frame" THEN inds
                ELSE IF Len(labs) # Len(inds.list) THEN Raise("IndexError")
                ELSE Concat(inds.list)
    IN  IF made.kind = "raise" THEN made
        ELSE SetColumns(made, FromProduct(name, labs))

-----------------------------------------------------------------------------
(* The inputs of make_return.                                              *)

Offsets == 0..MaxOffset

CellValues == {<<"a">>, <<"b">>}

\* the Series with values from vals at the offsets of a sparse map
RECURSIVE SeriesOf(_, _)
SeriesOf(m, o) ==
    IF o > MaxOffset THEN <<>>
    ELSE (IF m[o] = NaN THEN <<>> ELSE <<<<o, m[o]>>>>) \o SeriesOf(m, o + 1)

AllSeries == {SeriesOf(m, 0) : m \in [Offsets -> CellValues \cup {NaN}]}

PartLabels == [c \in 1..(MaxCols + 1) |-> str_nat(c - 1)]

ClassName == <<"T", "e", "s", "t">>

\* make_return(labels, indices) with a list of Series
MakeReturnList ==
    /\ ret = Pending
    /\ ret' = make_return(ClassName, labels, indices)
    /\ UNCHANGED <<labels, indices>>
    /\ UNCHANGED outsideMakeReturn

\* make_return(labels, indices) with the DataFrame an earlier call returned
MakeReturnFrame ==
    /\ ret.kind = "frame"
    /\ indices.kind = "list"
    /\ \E k \in 0..(MaxCols + 1) :
        /\ labels' = SubSeq(PartLabels, 1, k)
        /\ indices' = ret
        /\ ret' = make_return(ClassName, labels', indices')
    /\ UNCHANGED outsideMakeReturn

InitMakeReturn ==
    /\ \E n \in 0..MaxCols, k \in 0..(MaxCols + 1) :
         \E series \in [1..n -> AllSeries] :
           /\ labels = SubSeq(PartLabels, 1, k)
           /\ indices = ListOf(series)
    /\ ret = Pending
    /\ IdleRealIndexer
    /\ IdleInterval
    /\ IdleIndFunc
    /\ IdleDissonance
    /\ IdleConstruct
    /\ IdleTables
    /\ IdlePool
    /\ IdleRan
    /\ IdlePiece
    /\ IdleWorkflow

NextMakeReturn == MakeReturnList \/ MakeReturnFrame

SpecMakeReturn == InitMakeReturn /\ [][NextMakeReturn]_vars

-----------------------------------------------------------------------------
(* Properties of make_return.                                              *)

OffsetsOf(s) == {s[i][1] : i \in 1..Len(s)}

StrictlyIncreasing(index) ==
    \A i, j \in 1..Len(index) : i < j => index[i] < index[j]

\* the call returned a table built from a list of Series
BuiltFromList == indices.kind = "list" /\ ret.kind = "frame"

\* C1: the table make_return builds from a list of Series has as its offset
\* axis the sorted, duplicate-free union of the offsets of all the Series, and
\* column c holds the value of Series c at each offset of Series c and NaN at
\* every other offset (nothing is carried forward).
C1_UnionAxisNoFill ==
    BuiltFromList =>
        /\ StrictlyIncreasing(ret.index)
        /\ Range(ret.index) = UNION {OffsetsOf(indices.list[c]) : c \in 1..Len(indices.list)}
        /\ Len(ret.values) = Len(indices.list)
        /\ \A c \in 1..Len(indices.list) :
             /\ Len(ret.values[c]) = Len(ret.index)
             /\ \A r \in 1..Len(ret.index) :
                  LET s == indices.list[c]
                      here == {i \in 1..Len(s) : s[i][1] = ret.index[r]}
                  IN  IF here = {} THEN ret.values[c][r] = NaN
                      ELSE \A i \in here : ret.values[c][r] = s[i][2]

\* two Series with disjoint offsets were aligned, and the first is absent at
\* an offset after its first event
C1_Witness ==
    /\ BuiltFromList
    /\ Len(indices.list) = 2
    /\ OffsetsOf(indices.list[1]) = {0, 2}
    /\ OffsetsOf(indices.list[2]) = {1}
    /\ ret.index = <<0, 1, 2>>
    /\ ret.values[1][2] = NaN

\* C6: with a list of Series, make_return raises IndexError exactly when the
\* number of labels differs from the number of Series, and then returns no
\* table; with a DataFrame a differing number of labels returns no table
\* either.
C6_ShapeError ==
    /\ (indices.kind = "list" /\ ret # Pending) =>
          /\ (Len(labels) # Len(indices.list)) <=> (ret = Raise("IndexError"))
          /\ (Len(labels) # Len(indices.list)) => ret.kind # "frame"
    /\ (indices.kind = "frame" /\ Len(labels) # Len(indices.values)) =>
          ret.kind = "raise"

\* one label was given for two Series and the call raised
C6_Witness ==
    /\ indices.kind = "list"
    /\ Len(labels) = 1
    /\ Len(indices.list) = 2
    /\ ret = Raise("IndexError")

-----------------------------------------------------------------------------
(* music21: note.Note and interval.Interval as real_indexer uses them.     *)

StepNames == <<"C", "D", "E", "F", "G", "A", "B">>

\* the semitones of each step above C, also those of the perfect and major
\* intervals of each generic size
StepSemitones == <<0, 2, 4, 5, 7, 9, 11>>

StepIndex(c) == CHOOSE i \in 1..7 : StepNames[i] = c

RECURSIVE AccidentalAlter(_)
AccidentalAlter(s) ==
    IF s = <<>> THEN 0
    ELSE (IF Head(s) = "#" THEN 1 ELSE 0 - 1) + AccidentalAlter(Tail(s))

\* note.Note(name): name is a step, accidentals and an octave number; a name
\* that does not begin with a step is a PitchException
Note(name) ==
    LET octFound == SelectSeq(name, IsDigit)
        octNot == SelectSeq(name, LAMBDA c : ~IsDigit(c))
    IN  IF octNot = <<>> \/ Head(octNot) \notin Range(StepNames)
        THEN Raise("PitchException")
        ELSE IF \E i \in 2..Len(octNot) : octNot[i] \notin {"#", "-"}
        THEN Raise("AccidentalException")
        ELSE LET step == StepIndex(Head(octNot))
                 octave == IF octFound = <<>> THEN 4 ELSE int_digits(octFound)
             IN  [kind |-> "note",
                  diatonicNoteNum |-> step + 7 * octave,
                  ps |-> 12 * (octave + 1) + StepSemitones[step]
                         + AccidentalAlter(Tail(octNot))]

Abs(n) == IF n < 0 THEN 0 - n ELSE n

Sign(n) == IF n < 0 THEN 0 - 1 ELSE IF n > 0 THEN 1 ELSE 0

RECURSIVE Repeat(_, _)
Repeat(c, n) == IF n <= 0 THEN <<>> ELSE <<c>> \o Repeat(c, n - 1)

\* the specifier of an interval of undirected generic size "undirected"
\* spanning "semitones" semitones in the direction of the generic interval
Specifier(undirected, semitones) ==
    LET simpleSize == ((undirected - 1) % 7) + 1
        octaves == (undirected - 1) \div 7
        diff == semitones - (StepSemitones[simpleSize] + 12 * octaves)
    IN  IF simpleSize \in {1, 4, 5}
        THEN IF diff = 0 THEN <<"P">>
             ELSE IF diff > 0 THEN Repeat("A", diff)
             ELSE Repeat("d", 0 - diff)
        ELSE IF diff = 0 THEN <<"M">>
             ELSE IF diff = 0 - 1 THEN <<"m">>
             ELSE IF diff > 0 THEN Repeat("A", diff)
             ELSE Repeat("d", (0 - diff) - 1)

\* interval.Interval(noteStart, noteEnd)
Interval(noteStart, noteEnd) ==
    LET steps == noteEnd.diatonicNoteNum - noteStart.diatonicNoteNum
        directed == IF steps >= 0 THEN steps + 1 ELSE steps - 1
        undirected == Abs(directed)
        semitones == noteEnd.ps - noteStart.ps
    IN  [direction |-> Sign(semitones),
         undirected |-> undirected,
         simpleUndirected |-> ((undirected - 1) % 7) + 1,
         name |-> Specifier(undirected,
                            IF directed >= 0 THEN semitones ELSE 0 - semitones)
                  \o str_nat(undirected)]

-----------------------------------------------------------------------------
(* real_indexer                                                            *)

Rest == <<"R", "e", "s", "t">>

\* the name of the interval without its direction
IntervalPost(interval, simp, qua, octave) ==
    (IF qua
     THEN SelectSeq(interval.name, LAMBDA each : each \in {"A", "M", "P", "m", "d"})
     ELSE <<>>)
    \o (IF simp
        THEN (IF octave THEN <<"8">> ELSE str_nat(interval.simpleUndirected))
        ELSE str_nat(interval.undirected))

\* real_indexer that reduces an octave like every other size
real_indexer_no_octave(ecks_, simp, qua) ==
    IF 2 # Len(ecks_) THEN Returned(None)
    ELSE LET lower == Note(ecks_[2])
             upper == Note(ecks_[1])
         IN  IF lower.kind = "raise"
             THEN (IF lower.exc = "PitchException" THEN Returned(Rest) ELSE lower)
             ELSE IF upper.kind = "raise"
             THEN (IF upper.exc = "PitchException" THEN Returned(Rest) ELSE upper)
             ELSE LET i == Interval(lower, upper)
                  IN  Returned((IF i.direction < 0 THEN <<"-">> ELSE <<>>)
                               \o IntervalPost(i, simp, qua, FALSE))

\* real_indexer that expects the rest in the lower voice only
real_indexer_lower_rest(ecks_, simp, qua) ==
    IF 2 # Len(ecks_) THEN Returned(None)
    ELSE LET lower == Note(ecks_[2])
             upper == Note(ecks_[1])
         IN  IF lower.kind = "raise"
             THEN (IF lower.exc = "PitchException" THEN Returned(Rest) ELSE lower)
             ELSE IF upper.kind = "raise"
             THEN upper
             ELSE LET i == Interval(lower, upper)
                  IN  Returned((IF i.direction < 0 THEN <<"-">> ELSE <<>>)
                               \o IntervalPost(i, simp, qua, 8 = i.undirected))

\* real_indexer(ecks, simple, qual); ecks_[1] is the upper voice, Python's
\* ecks[0]
real_indexer(ecks_, simp, qua) ==
    IF 2 # Len(ecks_) THEN Returned(None)
    ELSE LET lower == Note(ecks_[2])
             upper == Note(ecks_[1])
         IN  IF lower.kind = "raise"
             THEN (IF lower.exc = "PitchException" THEN Returned(Rest) ELSE lower)
             ELSE IF upper.kind = "raise"
             THEN (IF upper.exc = "PitchException" THEN Returned(Rest) ELSE upper)
             ELSE LET i == Interval(lower, upper)
                  IN  Returned((IF i.direction < 0 THEN <<"-">> ELSE <<>>)
                               \o IntervalPost(i, simp, qua, 8 = i.undirected))

-----------------------------------------------------------------------------
(* Calls of real_indexer.                                                  *)

B3 == <<"B", "3">>
C4 == <<"C", "4">>
E4 == <<"E", "4">>
F4 == <<"F", "4">>
Fs4 == <<"F", "#", "4">>
C5 == <<"C", "5">>
E5 == <<"E", "5">>
C6 == <<"C", "6">>

\* what a NoteRestIndexer puts in the cells of a voice
NoteRestTokens == {B3, C4, E4, F4, Fs4, C5, E5, C6, Rest}

InitRealIndexer ==
    /\ \E n \in 1..3 : ecks \in [1..n -> NoteRestTokens]
    /\ simple \in BOOLEAN
    /\ qual \in BOOLEAN
    /\ interv = Pending
    /\ IdleMakeReturn
    /\ IdleInterval
    /\ IdleIndFunc
    /\ IdleDissonance
    /\ IdleConstruct
    /\ IdleTables
    /\ IdlePool
    /\ IdleRan
    /\ IdlePiece
    /\ IdleWorkflow

CallRealIndexer ==
    /\ interv = Pending
    /\ interv' = real_indexer(ecks, simple, qual)
    /\ UNCHANGED <<ecks, simple, qual>>
    /\ UNCHANGED outsideRealIndexer

NextRealIndexer == CallRealIndexer

SpecRealIndexer == InitRealIndexer /\ [][NextRealIndexer]_vars

-----------------------------------------------------------------------------
(* Properties of real_indexer.                                             *)

\* C7: given two values of which either is the Rest token, real_indexer
\* returns exactly the Rest token, whatever "simple" and "qual" are.
C7_RestPropagates ==
    (interv # Pending /\ Len(ecks) = 2 /\ Rest \in Range(ecks)) =>
        interv = Returned(Rest)

\* a rest in the upper voice over a note, without quality, compound
C7_Witness ==
    /\ ecks = <<Rest, C4>>
    /\ ~simple
    /\ ~qual
    /\ interv = Returned(Rest)

\* the pitch of a note name of NoteRestTokens, in semitones
Semitones(name) ==
    12 * (int_digits(<<name[Len(name)]>>) + 1)
    + StepSemitones[StepIndex(name[1])]
    + (IF Len(name) = 3 THEN 1 ELSE 0)

\* the diatonic size of the interval between two note names
Size(a, b) ==
    Abs((StepIndex(a[1]) + 7 * int_digits(<<a[Len(a)]>>))
        - (StepIndex(b[1]) + 7 * int_digits(<<b[Len(b)]>>))) + 1

\* C8: for two pitches the name real_indexer returns begins with '-' exactly
\* when the upper voice sounds below the lower voice; with quality and simple
\* E4 over C4 is exactly "M3" and C4 over E4 exactly "-M3"; with simple the
\* size is the single-octave one, an octave staying 8, and else the compound
\* size.
C8_IntervalName ==
    (interv # Pending /\ Len(ecks) = 2 /\ Rest \notin Range(ecks)) =>
        /\ interv.kind = "return"
        /\ interv.value # <<>>
        /\ (Head(interv.value) = "-") <=> (Semitones(ecks[1]) < Semitones(ecks[2]))
        /\ (qual /\ simple /\ ecks = <<E4, C4>>) => interv.value = <<"M", "3">>
        /\ (qual /\ simple /\ ecks = <<C4, E4>>) => interv.value = <<"-", "M", "3">>
        /\ LET size == Size(ecks[1], ecks[2])
               shown == SelectSeq(interv.value, IsDigit)
           IN  IF ~simple THEN shown = str_nat(size)
               ELSE IF size = 8 THEN shown = <<"8">>
               ELSE shown = str_nat(((size - 1) % 7) + 1)

\* an octave with the upper voice below, simple, with quality
C8_Witness ==
    /\ ecks = <<C4, C5>>
    /\ simple
    /\ qual
    /\ interv = Returned(<<"-", "P", "8">>)

-----------------------------------------------------------------------------
(* IntervalIndexer                                                         *)

SettingKeys == {"simple or compound", "quality"}

\* IntervalIndexer.default_settings
default_settings ==
    [k \in SettingKeys |-> IF k = "quality" THEN FALSE ELSE "compound"]

\* IntervalIndexer.__init__: the settings it keeps of the dict it is given
IntervalSettings(given) ==
    [k \in SettingKeys |-> IF k \in DOMAIN given THEN given[k] ELSE default_settings[k]]

\* IntervalIndexer.__init__: the function it chooses for its settings
IndexerFuncFor(setts) ==
    IF setts["quality"]
    THEN (IF "simple" = setts["simple or compound"]
          THEN "indexer_qual_simple" ELSE "indexer_qual_comp")
    ELSE (IF "simple" = setts["simple or compound"]
          THEN "indexer_nq_simple" ELSE "indexer_nq_comp")

\* indexer_qual_simple, indexer_qual_comp, indexer_nq_simple, indexer_nq_comp
CallIndexerFunc(func, ecks_) ==
    CASE func = "indexer_qual_simple" -> real_indexer(ecks_, TRUE, TRUE)
      [] func = "indexer_qual_comp" -> real_indexer(ecks_, FALSE, TRUE)
      [] func = "indexer_nq_simple" -> real_indexer(ecks_, TRUE, FALSE)
      [] OTHER -> real_indexer(ecks_, FALSE, FALSE)

\* "for right in xrange(right, n): combinations.append([left, right])"
RECURSIVE CombinationsOfLeft(_, _, _)
CombinationsOfLeft(left, right, n) ==
    IF right >= n THEN <<>>
    ELSE <<<<left, right>>>> \o CombinationsOfLeft(left, right + 1, n)

\* "for left in xrange(left, n): for right in xrange(left + 1, n): ..."
RECURSIVE CombinationsFrom(_, _)
CombinationsFrom(left, n) ==
    IF left >= n THEN <<>>
    ELSE CombinationsOfLeft(left, left + 1, n) \o CombinationsFrom(left + 1, n)

\* str(combo) of a list of two integers
str_list(combo) ==
    <<"[">> \o str_int(combo[1]) \o <<",", " ">> \o str_int(combo[2]) \o <<"]">>

\* the Series a part combination is indexed to: the parts are put on the
\* union of their offsets, each carrying its last value forward, and the
\* indexer function is called on every row
series_indexer_strict(parts, func) ==
    LET all_offsets == UnionOfIndexes(parts)
        rows == [r \in 1..Len(all_offsets) |->
                   CallIndexerFunc(func, [p \in 1..Len(parts) |->
                       Reindex(parts[p], all_offsets)[r]])]
    IN  IF \E r \in 1..Len(rows) : rows[r].kind = "raise"
        THEN Raise("Exception")
        ELSE Returned([r \in 1..Len(all_offsets) |-> <<all_offsets[r], rows[r].value>>])

series_indexer(parts, func) ==
    LET all_offsets == UnionOfIndexes(parts)
        rows == [r \in 1..Len(all_offsets) |->
                   CallIndexerFunc(func, [p \in 1..Len(parts) |->
                       ReindexFfill(parts[p], all_offsets)[r]])]
    IN  IF \E r \in 1..Len(rows) : rows[r].kind = "raise"
        THEN Raise("Exception")
        ELSE Returned([r \in 1..Len(all_offsets) |-> <<all_offsets[r], rows[r].value>>])

\* Indexer._do_multiprocessing(combinations): one result for each
\* combination, in the order of the combinations
do_multiprocessing(parts, func, combos) ==
    [i \in 1..Len(combos) |->
        series_indexer([p \in 1..Len(combos[i]) |-> parts[combos[i][p] + 1]], func)]

\* IntervalIndexer.run: the dict of the results by str(combo)
IntervalRun(parts, func) ==
    LET combos == CombinationsFrom(0, Len(parts))
        results == do_multiprocessing(parts, func, combos)
    IN  IF \E i \in 1..Len(results) : results[i].kind = "raise"
        THEN Raise("Exception")
        ELSE Returned([key \in {str_list(combos[i]) : i \in 1..Len(combos)} |->
                 LET last == CHOOSE i \in 1..Len(combos) :
                                /\ str_list(combos[i]) = key
                                /\ \A j \in 1..Len(combos) :
                                     str_list(combos[j]) = key => j <= i
                 IN  results[last].value])

\* WorkflowManager._make_lilypond: the combinations of 'all pairs'
LilypondCombos(n) == CombinationsFrom(0, n)

-----------------------------------------------------------------------------
(* Runs of the IntervalIndexer.                                            *)

IntervalTokens == {C4, E4, Rest}

\* the parts of a score: a part has an event at offset 0
Parts ==
    {SeriesOf(m, 0) : m \in {f \in [Offsets -> IntervalTokens \cup {NaN}] : f[0] # NaN}}

\* the lists of n parts holding at most "events" events
RECURSIVE ScoresWithin(_, _)
ScoresWithin(n, events) ==
    IF n = 0 THEN {<<>>}
    ELSE UNION {{<<p>> \o rest : rest \in ScoresWithin(n - 1, events - Len(p))} :
                p \in {q \in Parts : Len(q) + (n - 1) <= events}}

\* a dict of settings an IntervalIndexer is constructed with
GivenSettings(keys, quality, simple_or_compound) ==
    [k \in keys |-> IF k = "quality" THEN quality ELSE simple_or_compound]

\* IntervalIndexer(score, settings)
InitInterval ==
    /\ \E n \in 0..MaxParts : score \in ScoresWithin(n, MaxEvents)
    /\ \E keys \in SUBSET SettingKeys, q \in BOOLEAN, s \in {"simple", "compound"} :
         /\ settings = IntervalSettings(GivenSettings(keys, q, s))
         /\ indexer_func = IndexerFuncFor(settings)
    /\ combinations = <<>>
    /\ post = Pending
    /\ IdleMakeReturn
    /\ IdleRealIndexer
    /\ IdleIndFunc
    /\ IdleDissonance
    /\ IdleConstruct
    /\ IdleTables
    /\ IdlePool
    /\ IdleRan
    /\ IdlePiece
    /\ IdleWorkflow

\* IntervalIndexer.run()
RunInterval ==
    /\ post = Pending
    /\ combinations' = CombinationsFrom(0, Len(score))
    /\ post' = IntervalRun(score, indexer_func)
    /\ UNCHANGED <<score, settings, indexer_func>>
    /\ UNCHANGED outsideInterval

NextInterval == RunInterval

SpecInterval == InitInterval /\ [][NextInterval]_vars

-----------------------------------------------------------------------------
(* Properties of IntervalIndexer.run                                       *)

\* the value of the latest event of a part at or before an offset
MostRecentEvent(part, offset) ==
    LET latest == CHOOSE e \in Range(part) :
                     /\ e[1] <= offset
                     /\ \A f \in Range(part) : f[1] <= offset => f[1] <= e[1]
    IN  latest[2]

\* C2: for two voices the result has one row for every offset at which
\* either voice has an event, and the interval of a row is that of the
\* most recent event at or before the row's offset in each voice
C2_TwoVoiceRows ==
    (post.kind = "return" /\ Len(score) = 2) =>
        LET out == post.value[str_list(<<0, 1>>)]
            event_offsets == OffsetsOf(score[1]) \cup OffsetsOf(score[2])
        IN  /\ Len(out) = Cardinality(event_offsets)
            /\ OffsetsOf(out) = event_offsets
            /\ \A r \in 1..Len(out) :
                 out[r][2] = CallIndexerFunc(indexer_func,
                                 <<MostRecentEvent(score[1], out[r][1]),
                                   MostRecentEvent(score[2], out[r][1])>>).value

C2_Witness ==
    /\ post.kind = "return"
    /\ score = << <<<<0, C4>>, <<2, E4>>>>, <<<<0, E4>>, <<1, C4>>>> >>
    /\ indexer_func = "indexer_nq_comp"
    /\ post.value[str_list(<<0, 1>>)] =
         << <<0, <<"-", "3">>>>, <<1, <<"1">>>>, <<2, <<"3">>>> >>

\* the label "i,j" of the pair of the parts i and j
PairLabel(i, j) == str_int(i) \o <<",">> \o str_int(j)

\* C3: for N parts the result has N*(N-1)/2 columns, one for each pair
\* i < j, labelled "i,j"; the pairs are taken with i ascending and then j
\* ascending, as WorkflowManager._make_lilypond takes them
C3_PairColumns ==
    (post.kind = "return") =>
        LET n == Len(score)
            pairs == {p \in (0..(n - 1)) \X (0..(n - 1)) : p[1] < p[2]}
        IN  /\ Cardinality(DOMAIN post.value) = (n * (n - 1)) \div 2
            /\ DOMAIN post.value = {PairLabel(p[1], p[2]) : p \in pairs}
            /\ Range(combinations) = pairs
            /\ \A k \in 1..(Len(combinations) - 1) :
                 \/ combinations[k][1] < combinations[k + 1][1]
                 \/ /\ combinations[k][1] = combinations[k + 1][1]
                    /\ combinations[k][2] < combinations[k + 1][2]
            /\ combinations = LilypondCombos(n)

-----------------------------------------------------------------------------
(* dissonance.py: the values the indexer functions compute with.  A number *)
(* and a string are held apart: a float is a record of whether it is NaN   *)
(* and of its value in eighths; what interval_to_int returns is a record   *)
(* of its type and of the integer or the string.                           *)

Float(eighths) == [nan |-> FALSE, v |-> eighths]

FloatNaN == [nan |-> TRUE, v |-> 0]

isnan(f) == f.nan

\* f > g, f < g and f == g of floats: False when either is NaN
FloatGt(f, g) == ~f.nan /\ ~g.nan /\ f.v > g.v

FloatLt(f, g) == ~f.nan /\ ~g.nan /\ f.v < g.v

FloatEq(f, g) == ~f.nan /\ ~g.nan /\ f.v = g.v

IntValue(n) == [type |-> "int", n |-> n]

StrValue(s) == [type |-> "str", s |-> s]

\* s.split(sep) of a string and a separator of one character
RECURSIVE split(_, _)
split(s, sep) ==
    IF \A i \in 1..Len(s) : s[i] # sep THEN <<s>>
    ELSE LET at == CHOOSE i \in 1..Len(s) :
                      s[i] = sep /\ \A j \in 1..(i - 1) : s[j] # sep
         IN  <<SubSeq(s, 1, at - 1)>> \o split(SubSeq(s, at + 1, Len(s)), sep)

\* int(s) of a string of digits with an optional sign
int(s) ==
    IF s # <<>> /\ s[1] = "-" THEN 0 - int_digits(Tail(s)) ELSE int_digits(s)

\* the characters of a string that are a digit or the sign
RECURSIVE SignAndDigits(_)
SignAndDigits(s) ==
    IF s = <<>> THEN <<>>
    ELSE (IF IsDigit(s[1]) \/ s[1] = "-" THEN <<s[1]>> ELSE <<>>)
             \o SignAndDigits(Tail(s))

\* interval.interval_to_int: the size of an interval as an integer, and
\* 'Rest' for a rest
interval_to_int(name) ==
    IF name = Rest THEN StrValue(Rest) ELSE IntValue(int(SignAndDigits(name)))

\* series[label] of a Series that is indexed by strings
Loc(series, label) ==
    LET at == CHOOSE i \in 1..Len(series) : series[i][1] = label
    IN  series[at][2]

\* the labels of the module
CAMB_LABEL == <<"N", "C">>
CAMB_OTHER_LABEL == <<"o">>
CAMB_NODISS_LABEL == NaN
SUSP_SUSP_LABEL == <<"S", "U", "S", "P">>
SUSP_FAKE_LABEL == <<"F", "S", "U", "S">>
SUSP_OTHER_LABEL == <<"o">>
SUSP_NODISS_LABEL == NaN
NEIGH_UN_LABEL == <<"U", "N">>
NEIGH_LN_LABEL == <<"L", "N">>
NEIGH_OTHER_LABEL == <<"o">>
NEIGH_NODISS_LABEL == NaN
PASS_RP_LABEL == <<"R", "P">>
PASS_DP_LABEL == <<"D", "P">>
PASS_OTHER_LABEL == <<"o">>
PASS_NODISS_LABEL == NaN

\* the label with the voices counted from one
VoiceLabel_from_one(i, label) == str_int(i + 1) \o <<":">> \o label

\* ''.join((str(i), ':', label))
VoiceLabel(i, label) == str_int(i) \o <<":">> \o label

\* "isinstance(cell, basestring) or (not isnan(cell))" of a cell of the
\* dissonance index
IsDissonance(cell) == isstring(cell)

\* "row[beat_ind][lower_i] if isnan(row[beat_ind][upper_i]) else row[beat_ind][upper_i]"
BeatStrength(row, upper_i, lower_i) ==
    IF isnan(row.beat[upper_i + 1]) THEN row.beat[lower_i + 1] ELSE row.beat[upper_i + 1]

cons_ints == {8, 6, 5, 3, 1, -3, -5, -6, -8}

\* "v in cons_ints" of what interval_to_int returned
InConsInts(v) == v.type = "int" /\ v.n \in cons_ints

\* the intervals and beat strengths an indexer function reads of the rows
\* of a window for a pair of parts
Readings(combo, row_one, row_two, row_three) ==
    LET lower_i == int(split(combo, ",")[2])
        upper_i == int(split(combo, ",")[1])
    IN  [lower_i |-> lower_i,
         upper_i |-> upper_i,
         a |-> interval_to_int(row_two.horiz[upper_i + 1]),
         b |-> interval_to_int(row_three.horiz[upper_i + 1]),
         x |-> interval_to_int(row_two.horiz[lower_i + 1]),
         y |-> interval_to_int(row_three.horiz[lower_i + 1]),
         c |-> interval_to_int(Loc(row_one.int, combo)),
         d |-> interval_to_int(Loc(row_two.diss, combo)),
         z |-> interval_to_int(Loc(row_three.int, combo)),
         beat_strength_one |-> BeatStrength(row_one, upper_i, lower_i),
         beat_strength_two |-> BeatStrength(row_two, upper_i, lower_i),
         beat_strength_three |-> BeatStrength(row_three, upper_i, lower_i)]

IsRest(v) == v = StrValue(Rest)

\* v == n of what interval_to_int returned and an integer
IntEq(v, n) == v = IntValue(n)

\* susp_ind_func: what it writes for one pair of parts
SuspCell(combo, row_one, row_two, row_three) ==
    IF ~IsDissonance(Loc(row_two.diss, combo)) THEN SUSP_NODISS_LABEL
    ELSE LET r == Readings(combo, row_one, row_two, row_three)
             a == r.a
             x == r.x
             b == r.b.n
             d == r.d.n
             y == r.y.n
             z == r.z.n
             one == r.beat_strength_one
             two == r.beat_strength_two
             three == r.beat_strength_three
         IN  IF IsRest(r.b) \/ IsRest(r.d) \/ IsRest(r.y) \/ IsRest(r.z)
             THEN SUSP_NODISS_LABEL
             ELSE IF /\ IntEq(x, 1)
                     /\ ((b >= 1 /\ d + b = z) \/ (d + b + 2 = z))
                     /\ FloatGt(two, three)
             THEN VoiceLabel(r.lower_i, SUSP_SUSP_LABEL)
             ELSE IF /\ (IntEq(a, 2) \/ IntEq(a, -2))
                     /\ (IntEq(x, 1) \/ IntEq(x, 8) \/ IntEq(x, -8))
                     /\ 4 = d
                     /\ (1 = y \/ 8 = y \/ -8 = y)
                     /\ \/ (1 = b /\ 4 = z /\ FloatGt(one, two) /\ FloatGt(three, two))
                        \/ (-2 = b /\ 3 = z /\ FloatGt(one, two) /\ FloatEq(three, two))
             THEN VoiceLabel(r.upper_i, SUSP_FAKE_LABEL)
             ELSE IF /\ IntEq(a, 1)
                     /\ \/ (y >= 1 /\ (d - y = z \/ (d = 2 /\ z = 8)))
                        \/ (d - y - 2 = z)
                        \/ ((y = 8 \/ y = -8) /\ d - 1 = z)
                     /\ FloatGt(two, three)
             THEN VoiceLabel(r.upper_i, SUSP_SUSP_LABEL)
             ELSE SUSP_OTHER_LABEL

\* "(beat_strength_one < beat_strength_two) or
\*  (beat_strength_three < beat_strength_two)"
Accented_by_one(r) == FloatLt(r.beat_strength_one, r.beat_strength_two)

Accented(r) ==
    \/ FloatLt(r.beat_strength_one, r.beat_strength_two)
    \/ FloatLt(r.beat_strength_three, r.beat_strength_two)

\* neighbour_ind_func: what it writes for one pair of parts
NeighbourCell(combo, row_one, row_two, row_three) ==
    IF ~IsDissonance(Loc(row_two.diss, combo)) THEN NEIGH_NODISS_LABEL
    ELSE LET r == Readings(combo, row_one, row_two, row_three)
             a == r.a
             b == r.b
             c == r.c
             x == r.x
             y == r.y
         IN  IF IsRest(a) \/ IsRest(x) THEN NEIGH_NODISS_LABEL
             ELSE IF Accented(r) THEN NEIGH_NODISS_LABEL
             ELSE IF IntEq(a, 2) /\ IntEq(x, 1) /\ IntEq(b, -2) /\ InConsInts(c)
             THEN VoiceLabel(r.upper_i, NEIGH_UN_LABEL)
             ELSE IF IntEq(a, -2) /\ IntEq(x, 1) /\ IntEq(b, 2) /\ InConsInts(c)
             THEN VoiceLabel(r.upper_i, NEIGH_LN_LABEL)
             ELSE IF IntEq(x, 2) /\ IntEq(a, 1) /\ IntEq(y, -2) /\ InConsInts(c)
             THEN VoiceLabel(r.lower_i, NEIGH_UN_LABEL)
             ELSE IF IntEq(x, -2) /\ IntEq(a, 1) /\ IntEq(y, 2) /\ InConsInts(c)
             THEN VoiceLabel(r.lower_i, NEIGH_LN_LABEL)
             ELSE NEIGH_OTHER_LABEL

\* passing_ind_func: what it writes for one pair of parts
PassingCell(combo, row_one, row_two, row_three) ==
    IF ~IsDissonance(Loc(row_two.diss, combo)) THEN PASS_NODISS_LABEL
    ELSE LET r == Readings(combo, row_one, row_two, row_three)
             a == r.a
             b == r.b
             p == r.c
             x == r.x
             y == r.y
         IN  IF IsRest(a) \/ IsRest(p) \/ IsRest(x) THEN PASS_OTHER_LABEL
             ELSE IF IntEq(a, -2) /\ IntEq(x, 1) /\ IntEq(b, -2) /\ InConsInts(p)
             THEN VoiceLabel(r.upper_i, PASS_DP_LABEL)
             ELSE IF IntEq(a, 2) /\ IntEq(x, 1) /\ IntEq(b, 2) /\ InConsInts(p)
             THEN VoiceLabel(r.upper_i, PASS_RP_LABEL)
             ELSE IF IntEq(x, -2) /\ IntEq(a, 1) /\ IntEq(y, -2) /\ InConsInts(p)
             THEN VoiceLabel(r.lower_i, PASS_DP_LABEL)
             ELSE IF IntEq(x, 2) /\ IntEq(a, 1) /\ IntEq(y, 2) /\ InConsInts(p)
             THEN VoiceLabel(r.lower_i, PASS_RP_LABEL)
             ELSE PASS_OTHER_LABEL

\* susp_ind_func(obj), neighbour_ind_func(obj) and passing_ind_func(obj):
\* the Series of what they write, indexed as the dissonance index of the
\* first row is
susp_ind_func(obj_) ==
    [i \in 1..Len(obj_[1].diss) |->
        <<obj_[1].diss[i][1], SuspCell(obj_[1].diss[i][1], obj_[1], obj_[2], obj_[3])>>]

neighbour_ind_func(obj_) ==
    [i \in 1..Len(obj_[1].diss) |->
        <<obj_[1].diss[i][1], NeighbourCell(obj_[1].diss[i][1], obj_[1], obj_[2], obj_[3])>>]

passing_ind_func(obj_) ==
    [i \in 1..Len(obj_[1].diss) |->
        <<obj_[1].diss[i][1], PassingCell(obj_[1].diss[i][1], obj_[1], obj_[2], obj_[3])>>]

-----------------------------------------------------------------------------
(* Calls of the indexer functions.                                         *)

\* the labels of the pairs of the voices of a table
PairLabels ==
    {PairLabel(p[1], p[2]) :
        p \in {q \in (0..(MaxVoices - 1)) \X (0..(MaxVoices - 1)) : q[1] < q[2]}}

\* the cells of the horizontal intervals, of the vertical intervals and of
\* the dissonances
HorizCells == {<<"1">>, <<"2">>, <<"-", "2">>, Rest}

DissCells == {NaN, <<"4">>, Rest}

\* the beat strengths of the upper and of the lower voice of a pair, in the
\* outer rows of a window and in its middle row
OuterBeatCells == {<<Float(8), Float(4)>>, <<FloatNaN, Float(4)>>}

BeatCells == OuterBeatCells \cup {<<FloatNaN, FloatNaN>>}

IndFuncs == {"susp_ind_func", "neighbour_ind_func", "passing_ind_func"}

\* a row of the table with the columns of one pair of voices
WindowRow(combo, diss, vert, horiz, beat) ==
    LET upper_i == int(split(combo, ",")[1])
        lower_i == int(split(combo, ",")[2])
    IN  [diss |-> << <<combo, diss>> >>,
         int |-> << <<combo, vert>> >>,
         horiz |-> [v \in 1..MaxVoices |->
                      IF v = upper_i + 1 THEN horiz[1]
                      ELSE IF v = lower_i + 1 THEN horiz[2] ELSE NaN],
         beat |-> [v \in 1..MaxVoices |->
                      IF v = upper_i + 1 THEN beat[1]
                      ELSE IF v = lower_i + 1 THEN beat[2] ELSE FloatNaN]]

\* the cells that a function reads: a function that does not read a cell is
\* given one value of it
ReadsBeat(f) == f # "passing_ind_func"

BeatCellsOf(f) == IF ReadsBeat(f) THEN BeatCells ELSE {<<Float(8), Float(8)>>}

OuterBeatCellsOf(f) == IF ReadsBeat(f) THEN OuterBeatCells ELSE {<<Float(8), Float(8)>>}

FirstIntCellsOf(f) == IF f = "susp_ind_func" THEN {<<"3">>} ELSE {<<"3">>, <<"2">>, Rest}

LastIntCellsOf(f) == IF f = "susp_ind_func" THEN {<<"3">>, <<"4">>, Rest} ELSE {<<"3">>}

DissCellsOf(f) == IF f = "susp_ind_func" THEN DissCells ELSE {NaN, <<"4">>}

InitIndFunc ==
    /\ ind_func \in IndFuncs
    /\ \E combo \in PairLabels :
       \E c \in FirstIntCellsOf(ind_func), d \in DissCellsOf(ind_func),
          z \in LastIntCellsOf(ind_func) :
       \E a, x, b, y \in HorizCells :
       \E one, three \in OuterBeatCellsOf(ind_func), two \in BeatCellsOf(ind_func) :
          obj = << WindowRow(combo, NaN, c, <<NaN, NaN>>, one),
                   WindowRow(combo, d, IF d = NaN THEN <<"3">> ELSE d, <<a, x>>, two),
                   WindowRow(combo, NaN, z, <<b, y>>, three) >>
    /\ ind_result = Pending
    /\ IdleMakeReturn
    /\ IdleRealIndexer
    /\ IdleInterval
    /\ IdleDissonance
    /\ IdleConstruct
    /\ IdleTables
    /\ IdlePool
    /\ IdleRan
    /\ IdlePiece
    /\ IdleWorkflow

\* susp_ind_func(obj), neighbour_ind_func(obj), passing_ind_func(obj)
CallIndFunc ==
    /\ ind_result = Pending
    /\ ind_result' = Returned(CASE ind_func = "susp_ind_func" -> susp_ind_func(obj)
                            [] ind_func = "neighbour_ind_func" -> neighbour_ind_func(obj)
                            [] OTHER -> passing_ind_func(obj))
    /\ UNCHANGED <<ind_func, obj>>
    /\ UNCHANGED outsideIndFunc

NextIndFunc == CallIndFunc

SpecIndFunc == InitIndFunc /\ [][NextIndFunc]_vars

-----------------------------------------------------------------------------
(* Properties of the indexer functions.                                    *)

\* the figures an indexer function labels
Figures(f) ==
    CASE f = "susp_ind_func" -> {SUSP_SUSP_LABEL, SUSP_FAKE_LABEL}
      [] f = "neighbour_ind_func" -> {NEIGH_UN_LABEL, NEIGH_LN_LABEL}
      [] OTHER -> {PASS_RP_LABEL, PASS_DP_LABEL}

OtherLabel(f) ==
    CASE f = "susp_ind_func" -> SUSP_OTHER_LABEL
      [] f = "neighbour_ind_func" -> NEIGH_OTHER_LABEL
      [] OTHER -> PASS_OTHER_LABEL

\* C9: what susp_ind_func, neighbour_ind_func and passing_ind_func write
\* for the pair "u,l" is absent, or the "other" label, or
\* "<voice>:<figure>" where the voice is u or l and the figure is one of
\* the function's figures
C9_LabelFormat ==
    (ind_result.kind = "return") =>
        \A i \in 1..Len(ind_result.value) :
            LET combo == ind_result.value[i][1]
                v == ind_result.value[i][2]
            IN  (v # NaN) =>
                   \/ v = OtherLabel(ind_func)
                   \/ /\ Len(split(v, ":")) = 2
                      /\ split(v, ":")[1] \in Range(split(combo, ","))
                      /\ split(v, ":")[2] \in Figures(ind_func)

C9_Witness ==
    /\ ind_func = "susp_ind_func"
    /\ ind_result.kind = "return"
    /\ ind_result.value = << <<PairLabel(0, 2), <<"2", ":", "S", "U", "S", "P">>>> >>

\* the pair of a window's middle row is a dissonance
Dissonant(combo) == Loc(obj[2].diss, combo) # NaN

LeftAbsent(combo) ==
    LET upper == int(split(combo, ",")[1]) + 1
        lower == int(split(combo, ",")[2]) + 1
        one == IF obj[1].beat[upper].nan THEN obj[1].beat[lower] ELSE obj[1].beat[upper]
        two == IF obj[2].beat[upper].nan THEN obj[2].beat[lower] ELSE obj[2].beat[upper]
        three == IF obj[3].beat[upper].nan THEN obj[3].beat[lower] ELSE obj[3].beat[upper]
    IN  \/ /\ ind_func = "susp_ind_func"
           /\ Rest \in {obj[3].horiz[upper], obj[3].horiz[lower],
                        Loc(obj[2].diss, combo), Loc(obj[3].int, combo)}
        \/ /\ ind_func = "neighbour_ind_func"
           /\ \/ Rest \in {obj[2].horiz[upper], obj[2].horiz[lower]}
              \/ (~one.nan /\ ~two.nan /\ one.v < two.v)
              \/ (~three.nan /\ ~two.nan /\ three.v < two.v)

-----------------------------------------------------------------------------
(* The indexers of dissonance.py: their tables and their run methods.      *)

\* the names of the indexers whose results an indexer function reads
diss_ind ==
    <<"d", "i", "s", "s", "o", "n", "a", "n", "c", "e", ".", "C", "o", "n",
      "s", "M", "a", "k", "e", "r", "I", "n", "d", "e", "x", "e", "r">>

horiz_int_ind ==
    <<"i", "n", "t", "e", "r", "v", "a", "l", ".", "H", "o", "r", "i", "z",
      "o", "n", "t", "a", "l", "I", "n", "t", "e", "r", "v", "a", "l", "I",
      "n", "d", "e", "x", "e", "r">>

int_ind ==
    <<"i", "n", "t", "e", "r", "v", "a", "l", ".", "I", "n", "t", "e", "r",
      "v", "a", "l", "I", "n", "d", "e", "x", "e", "r">>

beat_ind ==
    <<"m", "e", "t", "r", "e", ".", "N", "o", "t", "e", "B", "e", "a", "t",
      "S", "t", "r", "e", "n", "g", "t", "h", "I", "n", "d", "e", "x", "e",
      "r">>

DissonanceClasses ==
    {"ConsMakerIndexer", "SuspensionIndexer", "NeighbourNoteIndexer",
     "PassingNoteIndexer", "NotaCambiataIndexer"}

\* the classes that classify a figure of three rows
RunClasses == {"SuspensionIndexer", "NeighbourNoteIndexer", "PassingNoteIndexer"}

\* the name of a class
ClassNameOf(cls) ==
    CASE cls = "ConsMakerIndexer" -> <<"C", "o", "n", "s", "M", "a", "k", "e", "r", "I", "n", "d", "e", "x", "e", "r">>
      [] cls = "SuspensionIndexer" -> <<"S", "u", "s", "p", "e", "n", "s", "i", "o", "n", "I", "n", "d", "e", "x", "e", "r">>
      [] cls = "NeighbourNoteIndexer" ->
           <<"N", "e", "i", "g", "h", "b", "o", "u", "r", "N", "o", "t", "e", "I", "n", "d", "e", "x", "e", "r">>
      [] cls = "PassingNoteIndexer" ->
           <<"P", "a", "s", "s", "i", "n", "g", "N", "o", "t", "e", "I", "n", "d", "e", "x", "e", "r">>
      [] cls = "DissonanceIndexer" ->
           <<"D", "i", "s", "s", "o", "n", "a", "n", "c", "e", "I", "n", "d", "e", "x", "e", "r">>
      [] OTHER ->
           <<"N", "o", "t", "a", "C", "a", "m", "b", "i", "a", "t", "a", "I", "n", "d", "e", "x", "e", "r">>

ClassModule ==
    <<"<", "c", "l", "a", "s", "s", " ", "'", "v", "i", "s", ".", "a", "n",
      "a", "l", "y", "z", "e", "r", "s", ".", "i", "n", "d", "e", "x", "e",
      "r", "s", ".", "d", "i", "s", "s", "o", "n", "a", "n", "c", "e", ".">>

\* str(self.__class__)
ClassString(cls) == ClassModule \o ClassNameOf(cls) \o <<"'", ">">>

\* s.rsplit(sep, 1)[-1]: what follows the last separator of a string
RECURSIVE AfterLast(_, _)
AfterLast(s, sep) ==
    IF s = <<>> \/ s[Len(s)] = sep THEN <<>>
    ELSE AfterLast(SubSeq(s, 1, Len(s) - 1), sep) \o <<s[Len(s)]>>

\* "str(self.__class__).rsplit('.', 1)[-1][0:-9]"
IndexerName(cls) ==
    LET last == AfterLast(ClassString(cls), ".")
    IN  SubSeq(last, 1, Len(last) - 9)

\* the column of a DataFrame as a Series
ColumnSeries(frame, c) ==
    [r \in 1..Len(frame.index) |-> <<frame.index[r], frame.values[c][r]>>]

\* pandas.concat(objs=[left, right], axis=1, join='outer') of two DataFrames
ConcatFrames(left, right) ==
    LET index == IndexUnion(left.index, right.index)
    IN  [kind |-> "frame",
         index |-> index,
         columns |-> left.columns \o right.columns,
         values |-> [c \in 1..Len(left.columns) |->
                        Reindex(ColumnSeries(left, c), index)]
                    \o [c \in 1..Len(right.columns) |->
                        Reindex(ColumnSeries(right, c), index)]]

\* the positions of the columns of a DataFrame under an indexer's name
RECURSIVE ColumnsUnder(_, _, _)
ColumnsUnder(frame, name, c) ==
    IF c > Len(frame.columns) THEN <<>>
    ELSE (IF frame.columns[c][1] = name THEN <<c>> ELSE <<>>)
             \o ColumnsUnder(frame, name, c + 1)

\* frame.iloc[i][name]: the Series of row i under an indexer's name
RowUnder(frame, i, name) ==
    LET cols == ColumnsUnder(frame, name, 1)
    IN  [j \in 1..Len(cols) |-> <<frame.columns[cols[j]][2], frame.values[cols[j]][i + 1]>>]

\* series[i] with an integer i of a Series that is indexed by strings
Positional(series) == [j \in 1..Len(series) |-> series[j][2]]

\* frame.iloc[i], as the indexer functions read it
iloc(frame, i) ==
    [diss |-> RowUnder(frame, i, diss_ind),
     int |-> RowUnder(frame, i, int_ind),
     horiz |-> Positional(RowUnder(frame, i, horiz_int_ind)),
     beat |-> Positional(RowUnder(frame, i, beat_ind))]

\* the indexer function, the least number of events and the label of no
\* dissonance of a class
IndexerFuncOf(cls) ==
    CASE cls = "ConsMakerIndexer" -> "cons_maker_ind_func"
      [] cls = "SuspensionIndexer" -> "susp_ind_func"
      [] cls = "NeighbourNoteIndexer" -> "neighbour_ind_func"
      [] cls = "PassingNoteIndexer" -> "passing_ind_func"
      [] OTHER -> "cambiata_ind_func"

LeastEvents_of_three(cls) == 3

LeastEvents(cls) == IF cls = "NotaCambiataIndexer" THEN 4 ELSE 3

NoDissLabel(cls) ==
    CASE cls = "SuspensionIndexer" -> SUSP_NODISS_LABEL
      [] cls = "NeighbourNoteIndexer" -> NEIGH_NODISS_LABEL
      [] OTHER -> PASS_NODISS_LABEL

CallInd(func, obj_) ==
    CASE func = "susp_ind_func" -> susp_ind_func(obj_)
      [] func = "neighbour_ind_func" -> neighbour_ind_func(obj_)
      [] OTHER -> passing_ind_func(obj_)

\* the constructors: Indexer.__init__ keeps the score, and the class raises
\* for a score of too few events
DissonanceInit(cls, frame) ==
    IF Len(frame.index) < LeastEvents(cls) THEN Raise("RuntimeError")
    ELSE [kind |-> "object", _score |-> frame, _indexer_func |-> IndexerFuncOf(cls)]

\* "for i in [0, -1]": the rows of n that are given the label of no
\* dissonance
LabelledRows_of_four(n) == {1, n, n - 1}

LabelledRows(n) == {1, n}

\* "post[i + 1] = func((score.iloc[i], score.iloc[i + 1], score.iloc[i + 2]))"
\* for i in xrange(n - 2), in a list of n times NaN
ClassifiedRows(func, frame) ==
    [k \in 1..Len(frame.index) |->
        IF k >= 2 /\ k <= Len(frame.index) - 1
        THEN CallInd(func, <<iloc(frame, k - 2), iloc(frame, k - 1), iloc(frame, k)>>)
        ELSE NaN]

\* "pandas.Series([label for _ in xrange(len(post[1]))], index=post[1].index)"
NoDissRow(second, label) == [j \in 1..Len(second) |-> <<second[j][1], label>>]

\* "for i in [0, -1]: post[i] = ..."
PostRows(classified, no_diss) ==
    [k \in 1..Len(classified) |->
        IF k \in LabelledRows(Len(classified)) THEN no_diss ELSE classified[k]]

\* "list(post.columns)" of the DataFrame of the rows
PostColumns(rows) == [j \in 1..Len(rows[1]) |-> rows[1][j][1]]

\* "[post[i] for i in post.columns]" of the DataFrame of the rows
PostSeries(index, rows) ==
    [j \in 1..Len(rows[1]) |-> [k \in 1..Len(rows) |-> <<index[k], rows[k][j][2]>>]]

\* "post = self.make_return(...)" and
\* "return pandas.concat(objs=[self._score, post], axis=1, join='outer')"
RunReturn(cls, frame, rows) ==
    LET made == make_return(IndexerName(cls), PostColumns(rows),
                    ListOf(PostSeries(frame.index, rows)))
    IN  IF made.kind = "raise" THEN made ELSE Returned(ConcatFrames(frame, made))

-----------------------------------------------------------------------------
(* Tables of the dissonance indexers.  A row is one of a few kinds: the   *)
(* highest voice steps up on a weak beat to a fourth with the other        *)
(* voices; the highest voice steps up, or steps down, on a strong beat to  *)
(* a third.  The other voices are held.                                    *)

RowKinds == {"weak_diss", "step_up", "step_down"}

\* the columns of a table: the dissonances and the vertical intervals of
\* every pair of voices, the horizontal intervals and the beat strengths
\* of every voice
TableColumns ==
    LET pairs == CombinationsFrom(0, MaxVoices)
        pair_labels == [j \in 1..Len(pairs) |-> PairLabel(pairs[j][1], pairs[j][2])]
        voice_labels == [v \in 1..MaxVoices |-> str_nat(v - 1)]
    IN  FromProduct(diss_ind, pair_labels) \o FromProduct(int_ind, pair_labels)
          \o FromProduct(horiz_int_ind, voice_labels)
          \o FromProduct(beat_ind, voice_labels)

\* the cell of a row of a kind in a column
KindCell(kind, column) ==
    LET with_highest == split(column[2], ",")[1] = <<"0">>
    IN  IF column[1] = diss_ind
        THEN (IF kind = "weak_diss" /\ with_highest THEN <<"4">> ELSE NaN)
        ELSE IF column[1] = int_ind
        THEN (IF kind = "weak_diss" /\ with_highest THEN <<"4">> ELSE <<"3">>)
        ELSE IF column[1] = horiz_int_ind
        THEN (IF column[2] # <<"0">> THEN <<"1">>
              ELSE IF kind = "step_down" THEN <<"-", "2">> ELSE <<"2">>)
        ELSE (IF kind = "weak_diss" THEN Float(4) ELSE Float(8))

\* the table of the rows of the given kinds, at the offsets 0, 1, 2, ...
TableOf(kinds) ==
    [kind |-> "frame",
     index |-> [r \in 1..Len(kinds) |-> r - 1],
     columns |-> TableColumns,
     values |-> [c \in 1..Len(TableColumns) |->
                    [r \in 1..Len(kinds) |-> KindCell(kinds[r], TableColumns[c])]]]

InitDissonance ==
    /\ klass \in DissonanceClasses
    /\ \E n \in 0..MaxRows : \E kinds \in [1..n -> RowKinds] : table = TableOf(kinds)
    /\ indexer = Pending
    /\ result = Pending
    /\ IdleMakeReturn
    /\ IdleRealIndexer
    /\ IdleInterval
    /\ IdleIndFunc
    /\ IdleConstruct
    /\ IdleTables
    /\ IdlePool
    /\ IdleRan
    /\ IdlePiece
    /\ IdleWorkflow

\* SuspensionIndexer(score) and the constructors of the other classes
Construct ==
    /\ indexer = Pending
    /\ indexer' = DissonanceInit(klass, table)
    /\ UNCHANGED <<table, klass, result>>
    /\ UNCHANGED outsideDissonance

\* SuspensionIndexer.run, NeighbourNoteIndexer.run, PassingNoteIndexer.run,
\* of an indexer that was constructed; classified and rows are the list
\* "post" after the first and after the second loop
Run ==
    /\ indexer.kind = "object"
    /\ klass \in RunClasses
    /\ result = Pending
    /\ \E classified \in {ClassifiedRows(indexer._indexer_func, indexer._score)} :
          IF Len(classified) < 2 THEN result' = Raise("IndexError")
          ELSE IF Len(classified) < 3 THEN result' = Raise("TypeError")
          ELSE \E rows \in {PostRows(classified,
                                 NoDissRow(classified[2], NoDissLabel(klass)))} :
                  result' = RunReturn(klass, indexer._score, rows)
    /\ UNCHANGED <<table, klass, indexer>>
    /\ UNCHANGED outsideDissonance

NextDissonance == Construct \/ Run

SpecDissonance == InitDissonance /\ [][NextDissonance]_vars

-----------------------------------------------------------------------------
(* Properties of the dissonance indexers.                                  *)

\* C4: the run of a SuspensionIndexer, NeighbourNoteIndexer or
\* PassingNoteIndexer over n >= 3 rows gives every pair of voices a column
\* whose first and last rows hold the label of no dissonance and whose
\* row k between them holds what the indexer function returns for the
\* rows k-1, k and k+1
C4_WindowRows ==
    (result.kind = "return") =>
        LET frame == result.value
            n == Len(table.index)
            cols == ColumnsUnder(frame, IndexerName(klass), 1)
            Window(k) == <<iloc(table, k - 2), iloc(table, k - 1), iloc(table, k)>>
        IN  /\ n >= 3
            /\ frame.index = table.index
            /\ [j \in 1..Len(cols) |-> frame.columns[cols[j]][2]]
                 = [j \in 1..Len(iloc(table, 0).diss) |-> iloc(table, 0).diss[j][1]]
            /\ \A j \in 1..Len(cols) :
                 /\ frame.values[cols[j]][1] = NoDissLabel(klass)
                 /\ frame.values[cols[j]][n] = NoDissLabel(klass)
                 /\ \A k \in 2..(n - 1) :
                      frame.values[cols[j]][k] =
                          Loc(CallInd(IndexerFuncOf(klass), Window(k)),
                              frame.columns[cols[j]][2])

C4_Witness ==
    /\ klass = "PassingNoteIndexer"
    /\ result.kind = "return"
    /\ Len(table.index) = 5
    /\ \E c \in 1..Len(result.value.columns) :
         /\ result.value.columns[c] =
              << <<"P", "a", "s", "s", "i", "n", "g", "N", "o", "t", "e">>, PairLabel(0, 1) >>
         /\ result.value.values[c] =
              <<NaN, <<"0", ":", "R", "P">>, NaN, <<"0", ":", "R", "P">>, NaN>>

\* C5: the constructor of a ConsMakerIndexer, SuspensionIndexer,
\* NeighbourNoteIndexer or PassingNoteIndexer raises for a table of fewer
\* than 3 rows, that of a NotaCambiataIndexer for one of fewer than 4 rows;
\* no run is made with such a table, and no run raises
C5_TooShortRaises ==
    /\ (indexer # Pending) =>
          ((indexer = Raise("RuntimeError")) <=>
              (Len(table.index) < (IF klass = "NotaCambiataIndexer" THEN 4 ELSE 3)))
    /\ (indexer.kind = "raise") => (result = Pending)
    /\ (result # Pending) =>
          /\ indexer.kind = "object"
          /\ Len(table.index) >= 3
          /\ result.kind = "return"

C5_Witness ==
    /\ klass = "NotaCambiataIndexer"
    /\ Len(table.index) = 3
    /\ indexer = Raise("RuntimeError")

-----------------------------------------------------------------------------
(* dissonance.py: reconciliation_func, which turns the labels that the     *)
(* four classifiers gave to the pairs of voices at one offset into one     *)
(* value for each voice.  Its argument is a row of a table: the Series of  *)
(* each classifier's labels, indexed by the pairs.                         *)

\* the names of the classifiers' columns; the function only looks them up
susp_ind == "dissonance.SuspensionIndexer"

neigh_ind == "dissonance.NeighbourNoteIndexer"

pass_ind == "dissonance.PassingNoteIndexer"

camb_ind == "dissonance.NotaCambiataIndexer"

\* "(susp_ind, neigh_ind, pass_ind, camb_ind)"
ReconciledIndexers == <<susp_ind, neigh_ind, pass_ind, camb_ind>>

\* "(_SUSP_OTHER_LABEL, _NEIGH_OTHER_LABEL, _PASS_OTHER_LABEL, _CAMB_OTHER_LABEL)"
OtherLabels == {SUSP_OTHER_LABEL, NEIGH_OTHER_LABEL, PASS_OTHER_LABEL, CAMB_OTHER_LABEL}

\* the index of a Series
IndexOf(series) == [i \in 1..Len(series) |-> series[i][1]]

\* "input_parts": the set of the voices of the pairs of the index
InputParts(index) ==
    UNION {{split(index[i], ",")[1], split(index[i], ",")[2]} : i \in 1..Len(index)}

\* "combowise": the labels of one pair that are not NaN, classifier by
\* classifier
RECURSIVE Combowise(_, _, _)
Combowise(obj_, combo_i, k) ==
    IF k > Len(ReconciledIndexers) THEN <<>>
    ELSE (IF Loc(Loc(obj_, ReconciledIndexers[k]), combo_i) = NaN THEN <<>>
          ELSE << Loc(Loc(obj_, ReconciledIndexers[k]), combo_i) >>)
             \o Combowise(obj_, combo_i, k + 1)

\* both voices of a pair that has some "other" label are given 'o'
OnlyOther_some(post_, combo_i, combowise) ==
    IF \E k \in 1..Len(combowise) : combowise[k] \in OtherLabels
    THEN [post_ EXCEPT ![split(combo_i, ",")[1]] = <<"o">>,
                       ![split(combo_i, ",")[2]] = <<"o">>]
    ELSE post_

\* the "for ... else" over combowise: both voices of a pair that has only
\* "other" labels are given 'o'
OnlyOther(post_, combo_i, combowise) ==
    IF \A k \in 1..Len(combowise) : combowise[k] \in OtherLabels
    THEN [post_ EXCEPT ![split(combo_i, ",")[1]] = <<"o">>,
                       ![split(combo_i, ",")[2]] = <<"o">>]
    ELSE post_

IsFigure(signature) == signature \notin OtherLabels

\* "for signature in signatures": a classification is written over None
\* and over "other", and is appended to a classification that differs from it
RECURSIVE AddSignatures(_, _)
AddSignatures(post_, signatures) ==
    IF signatures = <<>> THEN post_
    ELSE \* split_signature = signature.split(':')
         LET part == split(Head(signatures), ":")[1]
             figure == split(Head(signatures), ":")[2]
         IN  AddSignatures(
                 IF post_[part] = None \/ post_[part] \in OtherLabels
                 THEN [post_ EXCEPT ![part] = figure]
                 ELSE IF post_[part] # figure
                      THEN [post_ EXCEPT ![part] = post_[part] \o <<",">> \o figure]
                      ELSE post_,
                 Tail(signatures))

\* one turn of "for combo_i in obj[susp_ind].index"
ReconcileCombo(post_, obj_, combo_i) ==
    IF Combowise(obj_, combo_i, 1) = <<>> THEN post_
    ELSE AddSignatures(OnlyOther(post_, combo_i, Combowise(obj_, combo_i, 1)),
                       SelectSeq(Combowise(obj_, combo_i, 1), IsFigure))

RECURSIVE ReconcileFrom(_, _, _, _)
ReconcileFrom(post_, obj_, index, i) ==
    IF i > Len(index) THEN post_
    ELSE ReconcileFrom(ReconcileCombo(post_, obj_, index[i]), obj_, index, i + 1)

\* reconciliation_func(obj): the Series of the voices' values, as the
\* function from the voice to its value
reconciliation_func(obj_) ==
    ReconcileFrom([x \in InputParts(IndexOf(Loc(obj_, susp_ind))) |-> None],
                  obj_, IndexOf(Loc(obj_, susp_ind)), 1)

-----------------------------------------------------------------------------
(* Calls of reconciliation_func.  The row it is given holds the labels of  *)
(* the pairs of MaxVoices voices; at most MaxReports of its cells hold a   *)
(* label, or the four classifiers all labelled one pair and at most one    *)
(* cell of another pair holds a label.                                     *)

\* the pairs of the voices, in the order of the columns of a table
ReconIndex ==
    [k \in 1..Len(LilypondCombos(MaxVoices)) |->
        PairLabel(LilypondCombos(MaxVoices)[k][1], LilypondCombos(MaxVoices)[k][2])]

\* the cells of a row are counted pair by pair, and classifier by
\* classifier within a pair
CellCount == Len(ReconciledIndexers) * Len(ReconIndex)

CellPair(c) == ((c - 1) \div Len(ReconciledIndexers)) + 1

CellIndexer(c) == ((c - 1) % Len(ReconciledIndexers)) + 1

\* the figure and the "other" label of each classifier
ReportedFigure == <<SUSP_SUSP_LABEL, NEIGH_UN_LABEL, PASS_RP_LABEL, CAMB_LABEL>>

ReportedOther == <<SUSP_OTHER_LABEL, NEIGH_OTHER_LABEL, PASS_OTHER_LABEL, CAMB_OTHER_LABEL>>

\* the labels a classifier can give to a pair: "other", or its figure in
\* the upper or in the lower voice
CellLabel(c, choice) ==
    IF choice = 0 THEN ReportedOther[CellIndexer(c)]
    ELSE split(ReconIndex[CellPair(c)], ",")[choice] \o <<":">> \o ReportedFigure[CellIndexer(c)]

\* the cells cs, in their order, labelled by the choices
Reports(cs, choices) == [i \in 1..Len(cs) |-> <<cs[i], CellLabel(cs[i], choices[i])>>]

\* the cells of the pair p
PairCells(p) ==
    [k \in 1..Len(ReconciledIndexers) |-> Len(ReconciledIndexers) * (p - 1) + k]

CellOf(reports, c) ==
    IF \E i \in 1..Len(reports) : reports[i][1] = c
    THEN reports[CHOOSE i \in 1..Len(reports) : reports[i][1] = c][2]
    ELSE NaN

\* the row of the table with these labels
ReconRow(reports) ==
    [k \in 1..Len(ReconciledIndexers) |->
        <<ReconciledIndexers[k],
          [p \in 1..Len(ReconIndex) |->
              <<ReconIndex[p],
                CellOf(reports, Len(ReconciledIndexers) * (p - 1) + k)>>]>>]

InitReconcile ==
    /\ ind_func = "reconciliation_func"
    /\ \/ \E n \in 0..MaxReports :
          \E cs \in [1..n -> 1..CellCount] :
             /\ \A i \in 1..(n - 1) : cs[i] < cs[i + 1]
             /\ \E choices \in [1..n -> 0..2] :
                   obj = ReconRow(Reports(cs, choices))
       \/ \E p \in 1..Len(ReconIndex) :
          \E choices \in [1..Len(ReconciledIndexers) -> 0..2] :
          \E more \in 0..1 :
          \E c \in [1..more -> {d \in 1..CellCount : CellPair(d) # p}] :
          \E choice \in [1..more -> 0..2] :
             obj = ReconRow(Reports(PairCells(p), choices) \o Reports(c, choice))
    /\ ind_result = Pending
    /\ IdleMakeReturn
    /\ IdleRealIndexer
    /\ IdleInterval
    /\ IdleDissonance
    /\ IdleConstruct
    /\ IdleTables
    /\ IdlePool
    /\ IdleRan
    /\ IdlePiece
    /\ IdleWorkflow

\* reconciliation_func(obj)
CallReconcile ==
    /\ ind_func = "reconciliation_func"
    /\ ind_result = Pending
    /\ ind_result' = Returned(reconciliation_func(obj))
    /\ UNCHANGED <<ind_func, obj>>
    /\ UNCHANGED outsideIndFunc

NextReconcile == CallReconcile

SpecReconcile == InitReconcile /\ [][NextReconcile]_vars

-----------------------------------------------------------------------------
(* Properties of reconciliation_func.                                      *)

\* the labels that the classifiers gave to a pair
LabelsOfPair(combo) ==
    {Loc(Loc(obj, ReconciledIndexers[k]), combo) : k \in 1..Len(ReconciledIndexers)} \ {NaN}

\* the cells of the row where a figure is attributed to the voice
CellsOfVoice(voice) ==
    {c \in (1..Len(ReconciledIndexers)) \X (1..Len(obj[1][2])) :
        /\ obj[c[1]][2][c[2]][2] # NaN
        /\ obj[c[1]][2][c[2]][2] \notin OtherLabels
        /\ split(obj[c[1]][2][c[2]][2], ":")[1] = voice}

\* the figures that are attributed to the voice
FiguresOfVoice(voice) ==
    {split(obj[c[1]][2][c[2]][2], ":")[2] : c \in CellsOfVoice(voice)}

\* the voice is in a pair that has labels, all of them "other"
InOtherPair(voice) ==
    \E i \in 1..Len(obj[1][2]) :
        /\ voice \in Range(split(obj[1][2][i][1], ","))
        /\ LabelsOfPair(obj[1][2][i][1]) # {}
        /\ LabelsOfPair(obj[1][2][i][1]) \subseteq OtherLabels

NoDuplicates(s) == \A i, j \in 1..Len(s) : s[i] = s[j] => i = j

\* C11 as it is claimed: a voice that some classifier attributes a figure to
\* in some pair has a reconciled value that holds the figure and that is not
\* the "other" label, and the "other" label is the value only of a voice
\* that no figure is attributed to
C11_FigureWins ==
    (ind_func = "reconciliation_func" /\ ind_result.kind = "return") =>
        \A voice \in DOMAIN ind_result.value :
            /\ FiguresOfVoice(voice) # {} =>
                  /\ ind_result.value[voice] # None
                  /\ ind_result.value[voice] \notin OtherLabels
                  /\ FiguresOfVoice(voice) \subseteq Range(split(ind_result.value[voice], ","))
            /\ ind_result.value[voice] \in OtherLabels => FiguresOfVoice(voice) = {}

\* no classifier says "other" in the row
NoOtherInRow ==
    \A i \in 1..Len(obj[1][2]) : LabelsOfPair(obj[1][2][i][1]) \cap OtherLabels = {}

OneFigureInRow(i) ==
    /\ \A j \in 1..Len(obj[1][2]) : j # i => LabelsOfPair(obj[1][2][j][1]) = {}
    /\ \A k \in 1..Len(ReconciledIndexers) : obj[k][2][i][2] # NaN
    /\ \E k \in 1..Len(ReconciledIndexers) :
          /\ obj[k][2][i][2] \notin OtherLabels
          /\ split(obj[k][2][i][2], ":")[1] = split(obj[1][2][i][1], ",")[1]
          /\ \A m \in 1..Len(ReconciledIndexers) : m # k => obj[m][2][i][2] \in OtherLabels

\* C13: the reconciled row has one entry for each voice of the pairs; a
\* voice keeps the absent value exactly when no figure is attributed to it
\* and no pair it is in has only "other" labels; and when one classifier
\* attributes a figure to the upper voice of the only labelled pair while
\* the others say "other", the upper voice's value is the figure and the
\* lower voice's value is absent
C13_OneEntryPerVoice ==
    (ind_func = "reconciliation_func" /\ ind_result.kind = "return") =>
        /\ DOMAIN ind_result.value =
              UNION {Range(split(obj[1][2][i][1], ",")) : i \in 1..Len(obj[1][2])}
        /\ \A voice \in DOMAIN ind_result.value :
              (ind_result.value[voice] = None) <=>
                  (FiguresOfVoice(voice) = {} /\ ~InOtherPair(voice))
        /\ \A i \in 1..Len(obj[1][2]) :
              OneFigureInRow(i) =>
                 /\ {ind_result.value[split(obj[1][2][i][1], ",")[1]]}
                       = FiguresOfVoice(split(obj[1][2][i][1], ",")[1])
                 /\ ind_result.value[split(obj[1][2][i][1], ",")[2]] = None

C13_Witness ==
    /\ ind_func = "reconciliation_func"
    /\ ind_result.kind = "return"
    /\ OneFigureInRow(1)
    /\ Loc(Loc(obj, neigh_ind), PairLabel(0, 1)) = <<"0", ":", "U", "N">>
    /\ ind_result.value[<<"0">>] = <<"U", "N">>
    /\ ind_result.value[<<"1">>] = None
    /\ ind_result.value[<<"2">>] = None

-----------------------------------------------------------------------------
(* dissonance.py: the DissonanceIndexer, which removes the consonances     *)
(* from the rows of the IntervalIndexer's table.  A row ("simul") is the   *)
(* Series of the intervals of the pairs of voices at one offset.           *)

CONSONANCES ==
    {Rest, <<"P", "1">>, <<"m", "3">>, <<"M", "3">>, <<"P", "5">>, <<"m", "6">>,
     <<"M", "6">>, <<"P", "8">>, <<"-", "m", "3">>, <<"-", "M", "3">>,
     <<"-", "P", "5">>, <<"-", "m", "6">>, <<"-", "M", "6">>, <<"-", "P", "8">>}

CONSONANCE_MAKERS == {<<"m", "3">>, <<"M", "3">>, <<"P", "5">>}

CROSSED_CONSONANCE_MAKERS == {<<"-", "m", "3">>, <<"-", "M", "3">>, <<"-", "P", "5">>}

UPPER_VOICE_CONS_MAKERS == {<<"P", "1">>, <<"P", "8">>}

\* the setting of a row to consonances that keeps the rests
nan_consonance_but_rests(simul) ==
    [i \in 1..Len(simul) |->
        <<simul[i][1],
          IF simul[i][2] \in (CONSONANCES \ {Rest}) THEN NaN ELSE simul[i][2]>>]

\* DissonanceIndexer.nan_consonance:
\* "simul.map(lambda x: nan if x in DissonanceIndexer.CONSONANCES else x)"
nan_consonance(simul) ==
    [i \in 1..Len(simul) |->
        <<simul[i][1], IF simul[i][2] \in CONSONANCES THEN NaN ELSE simul[i][2]>>]

\* "investigate_these": the pairs of the index whose first voice is the voice
InvestigateThese(simul, voice) ==
    SelectSeq(IndexOf(simul), LAMBDA possibility : split(possibility, ",")[1] = voice)

\* "for possibility in investigate_these: if simul.loc[possibility] in makers"
FoundOne(simul, voice, makers) ==
    \E k \in 1..Len(InvestigateThese(simul, voice)) :
        Loc(simul, InvestigateThese(simul, voice)[k]) \in makers

\* the search that looks below the lower voice only
FourthIsConsonant_below(simul, combo) ==
    FoundOne(simul, split(combo, ",")[2], CONSONANCE_MAKERS)

\* the fourth of the pair combo is made a consonance: below its lower voice
\* and, if nothing is found there, from its upper voice down
FourthIsConsonant(simul, combo) ==
    IF FoundOne(simul, split(combo, ",")[2], CONSONANCE_MAKERS) THEN TRUE
    ELSE FoundOne(simul, split(combo, ",")[1], UPPER_VOICE_CONS_MAKERS)

\* DissonanceIndexer.special_fourths
special_fourths(simul) ==
    [i \in 1..Len(simul) |->
        <<simul[i][1],
          IF simul[i][2] = <<"P", "4">>
          THEN (IF FourthIsConsonant(simul, simul[i][1]) THEN NaN ELSE simul[i][2])
          ELSE IF simul[i][2] = <<"-", "P", "4">>
               THEN (IF FoundOne(simul, split(simul[i][1], ",")[1], CONSONANCE_MAKERS)
                     THEN NaN ELSE simul[i][2])
               ELSE simul[i][2]>>]

\* the search that goes on from the upper voice down
FifthIsConsonant_from_above(simul, combo) ==
    IF FoundOne(simul, split(combo, ",")[2], {<<"M", "6">>}) THEN TRUE
    ELSE FoundOne(simul, split(combo, ",")[1], {<<"M", "6">>})

\* the fifth of the pair combo is made a consonance by a major sixth of a
\* pair whose first voice is its lower voice
FifthIsConsonant(simul, combo) ==
    FoundOne(simul, split(combo, ",")[2], {<<"M", "6">>})

\* DissonanceIndexer.special_fifths
special_fifths(simul) ==
    [i \in 1..Len(simul) |->
        <<simul[i][1],
          IF simul[i][2] = <<"d", "5">>
          THEN (IF FifthIsConsonant(simul, simul[i][1]) THEN NaN ELSE simul[i][2])
          ELSE simul[i][2]>>]

-----------------------------------------------------------------------------
(* Calls of nan_consonance, special_fourths and special_fifths.  The row   *)
(* holds the pairs of the voices 0..MaxVoices; the voices of a pair that   *)
(* is not labelled rest.                                                   *)

\* the pairs of the voices 0..MaxVoices, in the order of the columns
SimulIndex ==
    [k \in 1..Len(LilypondCombos(MaxVoices + 1)) |->
        PairLabel(LilypondCombos(MaxVoices + 1)[k][1], LilypondCombos(MaxVoices + 1)[k][2])]

\* the row where the pairs cs hold the labels and the other pairs hold 'Rest'
Simul(cs, cells) ==
    [p \in 1..Len(SimulIndex) |->
        <<SimulIndex[p],
          IF \E i \in 1..Len(cs) : cs[i] = p
          THEN cells[CHOOSE i \in 1..Len(cs) : cs[i] = p]
          ELSE Rest>>]

SimulFuncs == {"nan_consonance", "special_fourths", "special_fifths"}

\* the intervals of a row that is given to nan_consonance
AnyInterval ==
    CONSONANCES \cup
    {NaN, <<"m", "2">>, <<"M", "2">>, <<"P", "4">>, <<"A", "4">>, <<"d", "5">>,
     <<"m", "7">>, <<"-", "M", "2">>, <<"-", "P", "4">>, <<"M", "1", "0">>}

\* the intervals of a row that is given to special_fourths and to
\* special_fifths
IntervalsOf(f) ==
    IF f = "special_fourths"
    THEN {<<"P", "4">>, <<"-", "P", "4">>, <<"M", "3">>, <<"P", "8">>}
    ELSE {<<"d", "5">>, <<"M", "6">>, <<"M", "3">>}

InitSimul ==
    /\ ind_func \in SimulFuncs
    /\ IF ind_func = "nan_consonance"
       THEN \E one \in 1..Len(SimulIndex), n \in 0..1 :
            \E other \in [1..n -> (1..Len(SimulIndex)) \ {one}] :
            \E cell \in AnyInterval :
            \E cells \in [1..n -> {NaN, <<"M", "2">>, <<"P", "5">>}] :
               obj = Simul(<<one>> \o other, <<cell>> \o cells)
       ELSE \E n \in 0..MaxLabelled :
            \E cs \in [1..n -> 1..Len(SimulIndex)] :
               /\ \A i \in 1..(n - 1) : cs[i] < cs[i + 1]
               /\ \E cells \in [1..n -> IntervalsOf(ind_func)] :
                     obj = Simul(cs, cells)
    /\ ind_result = Pending
    /\ IdleMakeReturn
    /\ IdleRealIndexer
    /\ IdleInterval
    /\ IdleDissonance
    /\ IdleConstruct
    /\ IdleTables
    /\ IdlePool
    /\ IdleRan
    /\ IdlePiece
    /\ IdleWorkflow

\* nan_consonance(simul), special_fourths(simul), special_fifths(simul)
CallSimul ==
    /\ ind_func \in SimulFuncs
    /\ ind_result = Pending
    /\ ind_result' = Returned(CASE ind_func = "nan_consonance" -> nan_consonance(obj)
                            [] ind_func = "special_fourths" -> special_fourths(obj)
                            [] OTHER -> special_fifths(obj))
    /\ UNCHANGED <<ind_func, obj>>
    /\ UNCHANGED outsideIndFunc

NextSimul == CallSimul

SpecSimul == InitSimul /\ [][NextSimul]_vars

-----------------------------------------------------------------------------
(* Properties of nan_consonance, special_fourths and special_fifths.       *)

\* the intervals that are named a unison, a third, a fifth, a sixth or an
\* octave, upwards or downwards
ConsonantIntervals == CONSONANCES \ {Rest}

\* the row that is returned has the pairs of the row that was given
SameIndex == IndexOf(ind_result.value) = IndexOf(obj)

HoldsUnder(voice, intervals) ==
    \E j \in 1..Len(obj) :
        split(obj[j][1], ",")[1] = voice /\ obj[j][2] \in intervals

C17_FifthMakers ==
    (ind_func = "special_fifths" /\ ind_result.kind = "return") =>
        /\ SameIndex
        /\ \A i \in 1..Len(obj) :
              /\ obj[i][2] = <<"d", "5">> =>
                    ind_result.value[i][2] =
                        (IF HoldsUnder(split(obj[i][1], ",")[2], {<<"M", "6">>})
                         THEN NaN ELSE <<"d", "5">>)
              /\ obj[i][2] # <<"d", "5">> => ind_result.value[i][2] = obj[i][2]

\* the fifth of "0,1" has a sixth from voice 0 and none below voice 1: it
\* is kept
C17_Witness ==
    /\ ind_func = "special_fifths"
    /\ ind_result.kind = "return"
    /\ Loc(obj, PairLabel(0, 1)) = <<"d", "5">>
    /\ Loc(obj, PairLabel(0, 2)) = <<"M", "6">>
    /\ ~HoldsUnder(<<"1">>, {<<"M", "6">>})
    /\ Loc(ind_result.value, PairLabel(0, 1)) = <<"d", "5">>

-----------------------------------------------------------------------------
(* dissonance.py: cons_maker_ind_func, which decides for the fourths and   *)
(* the diminished fifths that the DissonanceIndexer left in the middle row *)
(* of a window whether another pair of voices makes them a consonance.     *)
(* The field diss of a row is what the function reads under                *)
(* 'dissonance.DissonanceIndexer'.                                         *)

\* the second argument of Python's "x in flags": a list or a string
ListFlags(items) == [kind |-> "list", items |-> items]

StrFlags(s) == [kind |-> "str", s |-> s]

\* "v in s" of two strings
IsSubstring(v, s) == \E i \in 0..(Len(s) - Len(v)) : SubSeq(s, i + 1, i + Len(v)) = v

\* "v in flags": membership in a list, and in a string the test for a
\* substring, which is a TypeError for a v that is no string
InFlags(v, flags) ==
    IF flags.kind = "list" THEN (IF v \in flags.items THEN "True" ELSE "False")
    ELSE IF v = NaN THEN "TypeError"
    ELSE IF IsSubstring(v, flags.s) THEN "True" ELSE "False"

\* "for x in potens" of consCheck, from the k-th pair on
RECURSIVE consCheckFrom(_, _, _, _, _, _)
consCheckFrom(flagInts, crossedFlags, potens, position, low_vc, k) ==
    IF k > Len(potens) THEN "False"
    ELSE IF InFlags(Loc(position, potens[k]), flagInts) = "TypeError" THEN "TypeError"
    ELSE IF /\ InFlags(Loc(position, potens[k]), flagInts) = "True"
            /\ split(potens[k], ",")[1] = low_vc
         THEN "True"
    ELSE IF InFlags(Loc(position, potens[k]), crossedFlags) = "TypeError" THEN "TypeError"
    ELSE IF /\ InFlags(Loc(position, potens[k]), crossedFlags) = "True"
            /\ split(potens[k], ",")[2] = low_vc
         THEN "True"
    ELSE consCheckFrom(flagInts, crossedFlags, potens, position, low_vc, k + 1)

\* consCheck(flagInts, crossedFlags, potens, position, low_vc): "True",
\* "False" or the exception it raises
consCheck(flagInts, crossedFlags, potens, position, low_vc) ==
    consCheckFrom(flagInts, crossedFlags, potens, position, low_vc, 1)

\* "a", "b", "x", "y", "p", "d", "f" of cons_maker_ind_func for a pair
ConsReadings(combo, row_one, row_two, row_three) ==
    [a |-> interval_to_int(row_two.horiz[int(split(combo, ",")[1]) + 1]),
     b |-> interval_to_int(row_three.horiz[int(split(combo, ",")[1]) + 1]),
     x |-> interval_to_int(row_two.horiz[int(split(combo, ",")[2]) + 1]),
     y |-> interval_to_int(row_three.horiz[int(split(combo, ",")[2]) + 1]),
     p |-> interval_to_int(Loc(row_one.int, combo)),
     d |-> interval_to_int(Loc(row_two.diss, combo)),
     f |-> interval_to_int(Loc(row_three.int, combo))]

\* the intervals that cons_maker_ind_func looks at, and those of them
\* whose lower voice is the second voice of the pair
MadeConsonant ==
    {<<"P", "4">>, <<"-", "P", "4">>, <<"d", "5">>, <<"-", "d", "5">>,
     <<"A", "4">>, <<"-", "A", "4">>}

Uncrossed == {<<"P", "4">>, <<"d", "5">>, <<"A", "4">>}

\* the consonance makers of an interval and those of crossed voices
MakersOf(cell) ==
    IF cell \in {<<"P", "4">>, <<"-", "P", "4">>}
    THEN <<ListFlags(CONSONANCE_MAKERS), ListFlags(CROSSED_CONSONANCE_MAKERS)>>
    ELSE IF cell \in {<<"d", "5">>, <<"-", "d", "5">>}
    THEN <<StrFlags(<<"M", "6">>), StrFlags(<<"-", "M", "6">>)>>
    ELSE <<StrFlags(<<"m", "3">>), StrFlags(<<"-", "m", "3">>)>>

\* "found_one" for a pair: the makers are looked for at the offset of d,
\* then at that of p if p is the same interval and both voices are held
\* into d, then at that of f if f is the same interval and both are held
\* out of d
FoundMaker(obj_, r, makers, lower_voice) ==
    IF consCheck(makers[1], makers[2], IndexOf(obj_[2].int), obj_[2].int, lower_voice)
           # "False"
    THEN consCheck(makers[1], makers[2], IndexOf(obj_[2].int), obj_[2].int, lower_voice)
    ELSE IF /\ r.p = r.d /\ IntEq(r.a, 1) /\ IntEq(r.x, 1)
            /\ consCheck(makers[1], makers[2], IndexOf(obj_[1].int), obj_[1].int,
                         lower_voice) # "False"
         THEN consCheck(makers[1], makers[2], IndexOf(obj_[1].int), obj_[1].int,
                        lower_voice)
    ELSE IF r.f = r.d /\ IntEq(r.b, 1) /\ IntEq(r.y, 1)
         THEN consCheck(makers[1], makers[2], IndexOf(obj_[3].int), obj_[3].int,
                        lower_voice)
    ELSE "False"

\* what "for pair in row_two[diss_ind].index" appends for a pair, or the
\* exception it raises
ConsMakerCell(obj_, r, pair) ==
    IF Loc(obj_[2].diss, pair) \notin MadeConsonant THEN Returned(Loc(obj_[2].diss, pair))
    ELSE IF FoundMaker(obj_, r, MakersOf(Loc(obj_[2].diss, pair)),
                       IF Loc(obj_[2].diss, pair) \in Uncrossed
                       THEN split(pair, ",")[2] ELSE split(pair, ",")[1]) = "TypeError"
         THEN Raise("TypeError")
    ELSE IF FoundMaker(obj_, r, MakersOf(Loc(obj_[2].diss, pair)),
                       IF Loc(obj_[2].diss, pair) \in Uncrossed
                       THEN split(pair, ",")[2] ELSE split(pair, ",")[1]) = "True"
         THEN Returned(NaN)
    ELSE Returned(Loc(obj_[2].diss, pair))

\* the list "post" that the inner loop makes with the readings r
ConsMakerPost(obj_, r) ==
    IF \E j \in 1..Len(obj_[2].diss) :
           ConsMakerCell(obj_, r, obj_[2].diss[j][1]).kind = "raise"
    THEN Raise("TypeError")
    ELSE Returned([j \in 1..Len(obj_[2].diss) |->
                      <<obj_[2].diss[j][1],
                        ConsMakerCell(obj_, r, obj_[2].diss[j][1]).value>>])

\* "for post_i, combo in enumerate(row_one[diss_ind].index)" from the k-th
\* pair on: every pair that is a dissonance in the middle row makes the
\* list anew
RECURSIVE ConsMakerFrom(_, _, _)
ConsMakerFrom(obj_, post_, k) ==
    IF k > Len(obj_[1].diss) \/ post_.kind = "raise" THEN post_
    ELSE ConsMakerFrom(obj_,
             IF IsDissonance(Loc(obj_[2].diss, obj_[1].diss[k][1]))
             THEN ConsMakerPost(obj_, ConsReadings(obj_[1].diss[k][1],
                                                   obj_[1], obj_[2], obj_[3]))
             ELSE post_,
             k + 1)

\* cons_maker_ind_func(obj)
cons_maker_ind_func(obj_) ==
    ConsMakerFrom(obj_,
                  Returned([j \in 1..Len(obj_[2].diss) |-> <<obj_[2].diss[j][1], NaN>>]),
                  1)

-----------------------------------------------------------------------------
(* DissonanceIndexer(score).run() and the call of cons_maker_ind_func on   *)
(* its result.  The score holds three events of the voices 0..MaxVoices:   *)
(* the vertical intervals of every pair, simple and with their quality,    *)
(* and the horizontal intervals of every voice.                            *)

D3 == <<"D", "3">>
E3 == <<"E", "3">>

\* what a voice sings at the second event: the two highest voices and the
\* voices below them have their own pitches, and the voices may cross
ScorePitches(v) == IF v < 2 THEN {B3, E4, F4, Rest} ELSE {D3, B3, E4, Rest}

\* the events before and after the second: all voices are held, or the
\* lowest voice sings another pitch
EventKinds == {"held", "moved"}

EventOf(kind, pitches) ==
    IF kind = "held" THEN pitches ELSE [pitches EXCEPT ![Len(pitches)] = E3]

\* the cell of the IntervalIndexer for the pair of the voices i and j
VerticalCell(pitches, i, j) ==
    real_indexer(<<pitches[i + 1], pitches[j + 1]>>, TRUE, TRUE).value

\* the cell of the HorizontalIntervalIndexer for a voice: the interval from
\* the pitch of the event before, and NaN at the first event
HorizontalCell(events, r, v) ==
    IF r = 1 THEN NaN
    ELSE real_indexer(<<events[r][v + 1], events[r - 1][v + 1]>>, TRUE, TRUE).value

ScoreColumns ==
    FromProduct(int_ind, SimulIndex)
        \o FromProduct(horiz_int_ind, [v \in 1..(MaxVoices + 1) |-> str_nat(v - 1)])

ScoreCell(events, r, column) ==
    IF column[1] = int_ind
    THEN VerticalCell(events[r], int(split(column[2], ",")[1]), int(split(column[2], ",")[2]))
    ELSE HorizontalCell(events, r, int(column[2]))

\* the score of the events, at the offsets 0, 1, 2
ScoreOf(events) ==
    [kind |-> "frame",
     index |-> [r \in 1..Len(events) |-> r - 1],
     columns |-> ScoreColumns,
     values |-> [c \in 1..Len(ScoreColumns) |->
                    [r \in 1..Len(events) |-> ScoreCell(events, r, ScoreColumns[c])]]]

\* DissonanceIndexer.__init__: the settings argument is not read
DissonanceIndexerInit(frame) ==
    [kind |-> "object",
     _score |-> frame,
     _settings |-> [special_P4 |-> TRUE, special_d5 |-> TRUE]]

\* "post = self._score['interval.IntervalIndexer']", by rows
IntervalRows(frame) == [r \in 1..Len(frame.index) |-> RowUnder(frame, r - 1, int_ind)]

\* "post.apply(DissonanceIndexer.special_fifths, axis=1)" if the setting is
\* True, and "post.apply(DissonanceIndexer.nan_consonance, axis=1)";
\* special_fourths is not applied
DissonanceRows(ix) ==
    [r \in 1..Len(ix._score.index) |->
        nan_consonance(IF ix._settings.special_d5
                       THEN special_fifths(IntervalRows(ix._score)[r])
                       ELSE IntervalRows(ix._score)[r])]

\* "return self.make_return([x for x in post.columns], [post[x] for x in post.columns])"
DissonanceReturn(index, rows) ==
    make_return(IndexerName("DissonanceIndexer"), PostColumns(rows),
                ListOf(PostSeries(index, rows)))

\* the row i of the window of cons_maker_ind_func: the result of the
\* DissonanceIndexer beside the intervals of the score
ConsMakerRow(dissonances, frame, i) ==
    [diss |-> RowUnder(dissonances, i, IndexerName("DissonanceIndexer")),
     int |-> RowUnder(frame, i, int_ind),
     horiz |-> Positional(RowUnder(frame, i, horiz_int_ind))]

InitConsMaker ==
    /\ klass = "DissonanceIndexer"
    /\ \E pitches \in [1..(MaxVoices + 1) -> {D3, B3, E4, F4, Rest}] :
       \E before \in EventKinds : \E after \in EventKinds :
          /\ \A v \in 1..(MaxVoices + 1) : pitches[v] \in ScorePitches(v - 1)
          /\ table = ScoreOf(<<EventOf(before, pitches), pitches, EventOf(after, pitches)>>)
    /\ indexer = Pending
    /\ result = Pending
    /\ ind_func = "cons_maker_ind_func"
    /\ obj = <<>>
    /\ ind_result = Pending
    /\ IdleMakeReturn
    /\ IdleRealIndexer
    /\ IdleInterval
    /\ IdleConstruct
    /\ IdleTables
    /\ IdlePool
    /\ IdleRan
    /\ IdlePiece
    /\ IdleWorkflow

\* DissonanceIndexer(score)
ConstructDissonanceIndexer ==
    /\ klass = "DissonanceIndexer"
    /\ indexer = Pending
    /\ indexer' = DissonanceIndexerInit(table)
    /\ UNCHANGED <<table, klass, result>>
    /\ UNCHANGED outsideDissonance

\* DissonanceIndexer.run
RunDissonanceIndexer ==
    /\ klass = "DissonanceIndexer"
    /\ indexer.kind = "object"
    /\ result = Pending
    /\ \E rows \in {DissonanceRows(indexer)} :
          \E made \in {DissonanceReturn(indexer._score.index, rows)} :
             result' = IF made.kind = "raise" THEN made ELSE Returned(made)
    /\ UNCHANGED <<table, klass, indexer>>
    /\ UNCHANGED outsideDissonance

\* cons_maker_ind_func on the three events
CallConsMaker ==
    /\ ind_func = "cons_maker_ind_func"
    /\ result.kind = "return"
    /\ ind_result = Pending
    /\ \E window \in {[i \in 1..3 |-> ConsMakerRow(result.value, table, i - 1)]} :
          /\ obj' = window
          /\ ind_result' = cons_maker_ind_func(window)
    /\ UNCHANGED ind_func
    /\ UNCHANGED outsideIndFunc

NextConsMaker == ConstructDissonanceIndexer \/ RunDissonanceIndexer \/ CallConsMaker

SpecConsMaker == InitConsMaker /\ [][NextConsMaker]_vars

\* the second event holds a perfect fourth in the pair 0,2 and a major
\* sixth in the pair 2,3, and both stages have run
FourthOverSixth ==
    /\ klass = "DissonanceIndexer"
    /\ ind_result.kind = "return"
    /\ Loc(RowUnder(table, 1, int_ind), PairLabel(0, 2)) = <<"P", "4">>
    /\ Loc(RowUnder(table, 1, int_ind), PairLabel(2, 3)) = <<"M", "6">>

\* C15: when the pair 0,2 forms a perfect fourth and the pair 2,3 a major
\* sixth at one offset, the fourth is absent from the dissonances of the
\* pair 0,2 at that offset, after the DissonanceIndexer or after the
\* consonance makers were looked for
C15_FourthReclassified ==
    FourthOverSixth =>
        \/ Loc(RowUnder(result.value, 1, IndexerName("DissonanceIndexer")),
               PairLabel(0, 2)) = NaN
        \/ Loc(ind_result.value, PairLabel(0, 2)) = NaN

-----------------------------------------------------------------------------
(* The constructors: Indexer.__init__ and the __init__ of the              *)
(* IntervalIndexer, the ActiveVoicesIndexer and the Windexer.  A dict is a *)
(* function of its keys.  The attribute _settings of an object is a        *)
(* reference: to the dict default_settings of its class, which all objects *)
(* of the class share, or to a dict of its own.                            *)

\* the "settings" argument: None or a dict
NoSettings == [kind |-> "None"]

Dict(items) == [kind |-> "dict", items |-> items]

\* "d.update(other)"
Update(d, other) ==
    [k \in (DOMAIN d) \cup (DOMAIN other) |-> IF k \in DOMAIN other THEN other[k] ELSE d[k]]

SharedSettings == [ref |-> "class"]

OwnSettings(items) == [ref |-> "own", items |-> items]

\* the dict that the _settings of an object refer to
SettingsOf(object, class_dicts) ==
    IF object._settings.ref = "class" THEN class_dicts[object.cls]
    ELSE object._settings.items

\* the objects a score is made of
SeriesObject(series) == [kind |-> "Series", series |-> series]

PartObject == [kind |-> "Part"]

ScoreObject(parts) == [kind |-> "Score", parts |-> parts]

IntObject == [kind |-> "int"]

\* a DataFrame whose columns are a MultiIndex of indexer and part, or the
\* labels of an Index
Frame(index, columns, values, multi_index) ==
    [kind |-> "frame", index |-> index, columns |-> columns, values |-> values,
     multi_index |-> multi_index]

\* Indexer._TYPE_CONVERTER, by the kind of the objects of a type
TYPE_CONVERTER ==
    [t \in {"stream.Part", "stream.Score", "pandas.Series", "pandas.DataFrame"} |->
        CASE t = "stream.Part" -> "Part"
          [] t = "stream.Score" -> "Score"
          [] t = "pandas.Series" -> "Series"
          [] OTHER -> "frame"]

\* "series.dropna()"
dropna(series) == SelectSeq(series, LAMBDA item : item[2] # NaN)

\* "len(score.columns.levels[0])"
Levels0(frame) == Cardinality({frame.columns[c][1] : c \in 1..Len(frame.columns)})

\* Indexer.__init__(score, settings) in a class of the required_score_type:
\* the score that the object keeps as _score, or the exception
IndexerInit(required_score_type, score_) ==
    IF required_score_type \notin DOMAIN TYPE_CONVERTER THEN Raise("TypeError")
    ELSE IF /\ score_.kind = "list"
            /\ TYPE_CONVERTER[required_score_type] \in {"frame", "Series", "Part"}
    THEN (IF \A e \in 1..Len(score_.list) :
                  score_.list[e].kind = TYPE_CONVERTER[required_score_type]
          THEN Returned(score_) ELSE Raise("TypeError"))
    ELSE IF score_.kind = "frame" /\ TYPE_CONVERTER[required_score_type] = "Series"
    THEN (IF (~score_.multi_index) \/ 1 # Levels0(score_)
          THEN Raise("IndexError")
          ELSE Returned(ListOf([x \in 1..Len(score_.columns) |->
                                   SeriesObject(dropna(ColumnSeries(score_, x)))])))
    ELSE IF score_.kind = "Score" /\ TYPE_CONVERTER[required_score_type] = "Part"
    THEN Returned(ListOf(score_.parts))
    ELSE Returned(score_)

\* the forward fill that carries a value over one absent cell only
FilledAt_once(column, r) ==
    IF r = 0 THEN NaN
    ELSE IF column[r] # NaN THEN column[r]
    ELSE IF r > 1 THEN column[r - 1] ELSE NaN

\* the cell r of a column after the forward fill: the last value at or
\* before r that is not NaN
RECURSIVE FilledAt(_, _)
FilledAt(column, r) ==
    IF r = 0 THEN NaN
    ELSE IF column[r] # NaN THEN column[r]
    ELSE FilledAt(column, r - 1)

\* "score.fillna(method='ffill')" of a DataFrame
fillna_ffill(frame) ==
    [frame EXCEPT !.values =
        [c \in 1..Len(frame.values) |->
            [r \in 1..Len(frame.values[c]) |-> FilledAt(frame.values[c], r)]]]

\* "score.fillna(method='ffill')" of a DataFrame or a Series
fillna(score_) ==
    IF score_.kind = "frame" THEN fillna_ffill(score_)
    ELSE [score_ EXCEPT !.series =
             [r \in 1..Len(score_.series) |->
                 <<score_.series[r][1],
                   FilledAt([q \in 1..Len(score_.series) |-> score_.series[q][2]], r)>>]]

\* the default_settings of the classes when the module is imported
ClassDicts ==
    [cls \in {"ActiveVoicesIndexer", "Windexer"} |->
        IF cls = "ActiveVoicesIndexer"
        THEN [k \in {"attacked", "show_all"} |-> FALSE]
        ELSE [k \in {"window_size"} |-> 4]]

\* ActiveVoicesIndexer.__init__(score, settings) with the dicts of the
\* classes as they are: the dicts after the call and what was constructed
ActiveVoicesInit(class_dicts, score_, settings_) ==
    LET updated == IF settings_.kind = "None" THEN class_dicts
                   ELSE [class_dicts EXCEPT !["ActiveVoicesIndexer"] =
                            Update(@, settings_.items)]
        kept == IndexerInit("pandas.DataFrame", score_)
    IN  <<updated,
          IF /\ score_.kind \notin {"frame", "Series"}
             /\ ~updated["ActiveVoicesIndexer"]["attacked"]
          THEN Raise("AttributeError")
          ELSE IF kept.kind = "raise" THEN kept
          ELSE [kind |-> "object",
                cls |-> "ActiveVoicesIndexer",
                _settings |-> SharedSettings,
                score |-> IF updated["ActiveVoicesIndexer"]["attacked"]
                          THEN score_ ELSE fillna(score_),
                _score |-> kept.value]>>

\* "len(score)" of a DataFrame or a list
len(score_) == IF score_.kind = "frame" THEN Len(score_.index) ELSE Len(score_.list)

\* Windexer.__init__(score, settings)
WindexerInit(score_, settings_) ==
    LET kept == IndexerInit("pandas.DataFrame", score_)
    IN  IF settings_.kind # "None" /\ "window_size" \notin DOMAIN settings_.items
        THEN Raise("KeyError")
        ELSE IF settings_.kind # "None" /\ settings_.items["window_size"] > len(score_)
        THEN Raise("RuntimeError")
        ELSE IF kept.kind = "raise" THEN kept
        ELSE [kind |-> "object",
              cls |-> "Windexer",
              _settings |-> IF settings_.kind = "None" THEN SharedSettings
                            ELSE OwnSettings(settings_.items),
              _score |-> kept.value]

\* IntervalIndexer.__init__(score, settings)
IntervalIndexerInit(score_, settings_) ==
    [kind |-> "object",
     cls |-> "IntervalIndexer",
     _settings |-> OwnSettings(IntervalSettings(IF settings_.kind = "None" THEN <<>>
                                                ELSE settings_.items)),
     _score |-> score_,
     _indexer_func |-> IndexerFuncFor(IntervalSettings(IF settings_.kind = "None" THEN <<>>
                                                       ELSE settings_.items))]

\* the call that is made next
NextCall == calls[Len(built) + 1]

\* ActiveVoicesIndexer(score, settings)
ConstructActiveVoices ==
    /\ Len(built) < Len(calls)
    /\ NextCall.cls = "ActiveVoicesIndexer"
    /\ \E done \in {ActiveVoicesInit(defaults, NextCall.score, NextCall.settings)} :
          /\ defaults' = done[1]
          /\ built' = Append(built, done[2])
    /\ UNCHANGED calls
    /\ UNCHANGED outsideConstruct

\* Windexer(score, settings)
ConstructWindexer ==
    /\ Len(built) < Len(calls)
    /\ NextCall.cls = "Windexer"
    /\ built' = Append(built, WindexerInit(NextCall.score, NextCall.settings))
    /\ UNCHANGED <<defaults, calls>>
    /\ UNCHANGED outsideConstruct

\* IntervalIndexer(score, settings)
ConstructInterval ==
    /\ Len(built) < Len(calls)
    /\ NextCall.cls = "IntervalIndexer"
    /\ built' = Append(built, IntervalIndexerInit(NextCall.score, NextCall.settings))
    /\ UNCHANGED <<defaults, calls>>
    /\ UNCHANGED outsideConstruct

\* the constructor of a class that has the required_score_type and leaves
\* the score to Indexer.__init__
ConstructIndexer ==
    /\ Len(built) < Len(calls)
    /\ NextCall.cls = "Indexer"
    /\ \E kept \in {IndexerInit(NextCall.required_score_type, NextCall.score)} :
          built' = Append(built,
                     IF kept.kind = "raise" THEN kept
                     ELSE [kind |-> "object",
                           cls |-> "Indexer",
                           required_score_type |-> NextCall.required_score_type,
                           _settings |-> OwnSettings(<<>>),
                           _score |-> kept.value])
    /\ UNCHANGED <<defaults, calls>>
    /\ UNCHANGED outsideConstruct

-----------------------------------------------------------------------------
(* ActiveVoicesIndexer(score, settings) as the first call of a session.    *)
(* The score holds two voices at the offsets 0, 1, ... up to MaxOffset.    *)

FillTokens == {NaN, C4, E4}

FillColumns ==
    FromProduct(<<"n", "o", "t", "e", "r", "e", "s", "t", ".", "N", "o", "t", "e", "R",
                  "e", "s", "t", "I", "n", "d", "e", "x", "e", "r">>,
                <<<<"0">>, <<"1">>>>)

\* the settings an ActiveVoicesIndexer is given
ActiveVoicesSettings ==
    {NoSettings} \cup
    {Dict([k \in {key} |-> value]) :
        key \in {"attacked", "show_all", "mystery"}, value \in BOOLEAN}

InitForwardFill ==
    /\ defaults = ClassDicts
    /\ \E n \in 1..(MaxOffset + 1) :
       \E upper \in [1..n -> FillTokens] : \E lower \in [1..n -> FillTokens] :
       \E given \in ActiveVoicesSettings :
          calls = <<[cls |-> "ActiveVoicesIndexer",
                     score |-> Frame([r \in 1..n |-> r - 1], FillColumns,
                                     <<upper, lower>>, TRUE),
                     settings |-> given]>>
    /\ built = <<>>
    /\ IdleMakeReturn
    /\ IdleRealIndexer
    /\ IdleInterval
    /\ IdleIndFunc
    /\ IdleDissonance
    /\ IdleTables
    /\ IdlePool
    /\ IdleRan
    /\ IdlePiece
    /\ IdleWorkflow

NextForwardFill == ConstructActiveVoices

SpecForwardFill == InitForwardFill /\ [][NextForwardFill]_vars

\* the object that the last call made is an ActiveVoicesIndexer whose score
\* was filled
FilledScore ==
    /\ built # <<>>
    /\ built[Len(built)].kind = "object"
    /\ built[Len(built)].cls = "ActiveVoicesIndexer"
    /\ ~SettingsOf(built[Len(built)], defaults)["attacked"]

\* the rows before r of a column that hold a value
ValuesBefore(column, r) == {q \in 1..(r - 1) : column[q] # NaN}

Greatest(rows) == CHOOSE q \in rows : \A other \in rows : other <= q

\* the column "filled" is the forward fill of the column "given"
IsForwardFill(filled, given) ==
    /\ Len(filled) = Len(given)
    /\ \A r \in 1..Len(given) :
          IF given[r] # NaN THEN filled[r] = given[r]
          ELSE IF ValuesBefore(given, r) = {} THEN filled[r] = NaN
          ELSE filled[r] = given[Greatest(ValuesBefore(given, r))]

\* C18: the forward fill of a table puts in each absent cell the nearest
\* value before it in its column, leaves absent the cells that have no
\* value before them, never changes a value, and filling the filled table
\* again changes nothing
C18_ForwardFill ==
    FilledScore =>
        /\ built[Len(built)].score.index = calls[Len(built)].score.index
        /\ built[Len(built)].score.columns = calls[Len(built)].score.columns
        /\ Len(built[Len(built)].score.values) = Len(calls[Len(built)].score.values)
        /\ \A c \in 1..Len(calls[Len(built)].score.values) :
              IsForwardFill(built[Len(built)].score.values[c],
                            calls[Len(built)].score.values[c])
        /\ fillna_ffill(built[Len(built)].score) = built[Len(built)].score

\* a score was filled in which a value is followed by two absent cells
\* and another column begins with an absent cell
C18_Witness ==
    /\ FilledScore
    /\ \E c \in 1..2 : \E r \in 1..(Len(calls[1].score.index) - 2) :
          /\ calls[1].score.values[c][r] # NaN
          /\ calls[1].score.values[c][r + 1] = NaN
          /\ calls[1].score.values[c][r + 2] = NaN
          /\ built[1].score.values[c][r + 2] = calls[1].score.values[c][r]
    /\ \E c \in 1..2 :
          /\ calls[1].score.values[c][1] = NaN
          /\ built[1].score.values[c][1] = NaN

-----------------------------------------------------------------------------
(* Sessions of constructor calls with settings: up to MaxInstances calls   *)
(* of the IntervalIndexer, the ActiveVoicesIndexer and the Windexer, in    *)
(* one process, so that the classes keep their dicts between the calls.    *)

MaxInstances == 2

\* possible_settings of the classes
possible_settings(cls) ==
    CASE cls = "ActiveVoicesIndexer" -> {"attacked", "show_all"}
      [] cls = "Windexer" -> {"window_size"}
      [] OTHER -> SettingKeys

\* the defaults that the classes document
DocumentedDefaults(cls) ==
    CASE cls = "ActiveVoicesIndexer" -> [k \in {"attacked", "show_all"} |-> FALSE]
      [] cls = "Windexer" -> [k \in {"window_size"} |-> 4]
      [] OTHER -> default_settings

\* the settings an IntervalIndexer and a Windexer are given; "direction"
\* and "step" are keys that the classes do not know
IntervalIndexerSettings ==
    {NoSettings,
     Dict(GivenSettings({"quality"}, TRUE, "simple")),
     Dict(GivenSettings({"simple or compound"}, TRUE, "simple")),
     Dict(GivenSettings({"quality", "simple or compound"}, FALSE, "compound")),
     Dict(GivenSettings({"quality", "direction"}, TRUE, "simple"))}

WindexerSettings ==
    {NoSettings,
     Dict([k \in {"window_size"} |-> 1]),
     Dict([k \in {"window_size", "step"} |-> 2]),
     Dict([k \in {"window_size"} |-> 9]),
     Dict([k \in {"step"} |-> 2])}

\* the score of the session: two voices at two offsets
SessionScore ==
    Frame(<<0, 1>>, FillColumns, <<<<C4, NaN>>, <<NaN, E4>>>>, TRUE)

\* the calls that a session can make
SessionCalls ==
    {[cls |-> "ActiveVoicesIndexer", score |-> SessionScore, settings |-> given] :
        given \in ActiveVoicesSettings}
    \cup {[cls |-> "Windexer", score |-> SessionScore, settings |-> given] :
        given \in WindexerSettings}
    \cup {[cls |-> "IntervalIndexer",
           score |-> ListOf(<<SeriesObject(<<<<0, C4>>>>), SeriesObject(<<<<1, E4>>>>)>>),
           settings |-> given] :
        given \in IntervalIndexerSettings}

InitSettings ==
    /\ defaults = ClassDicts
    /\ \E n \in 1..MaxInstances : calls \in [1..n -> SessionCalls]
    /\ built = <<>>
    /\ IdleMakeReturn
    /\ IdleRealIndexer
    /\ IdleInterval
    /\ IdleIndFunc
    /\ IdleDissonance
    /\ IdleTables
    /\ IdlePool
    /\ IdleRan
    /\ IdlePiece
    /\ IdleWorkflow

NextSettings == ConstructActiveVoices \/ ConstructWindexer \/ ConstructInterval

SpecSettings == InitSettings /\ [][NextSettings]_vars

\* the value that a key has for an object according to the mapping its
\* constructor was given
PassedOrDefault(call, key) ==
    IF call.settings.kind = "dict" /\ key \in DOMAIN call.settings.items
    THEN call.settings.items[key]
    ELSE DocumentedDefaults(call.cls)[key]

\* C19: the settings of every object are those of the mapping that its own
\* constructor was given: a recognised key has the value passed or else
\* the documented default, whatever the calls before and after it were
\* given
C19_OwnSettings ==
    \A k \in 1..Len(built) :
        built[k].kind = "object" =>
            \A key \in possible_settings(built[k].cls) :
                /\ key \in DOMAIN SettingsOf(built[k], defaults)
                /\ SettingsOf(built[k], defaults)[key] = PassedOrDefault(calls[k], key)

-----------------------------------------------------------------------------
(* Indexer.__init__ in a class that declares a required_score_type, given  *)
(* a score of any type: a DataFrame, a Series, a Part, a Score, another    *)
(* object, or a list of up to MaxParts such objects.                       *)

\* what a class declares; 'stream.Stream' is not in _TYPE_CONVERTER
RequiredTypes ==
    {"pandas.DataFrame", "pandas.Series", "stream.Part", "stream.Score", "stream.Stream"}

\* a DataFrame of the results of one indexer, one of the results of two
\* indexers, and one whose columns are not a MultiIndex
GivenFrames ==
    {Frame(<<0, 1>>, FillColumns, <<<<C4, NaN>>, <<NaN, E4>>>>, TRUE),
     Frame(<<0, 1>>, <<<<int_ind, <<"0", ",", "1">>>>, <<horiz_int_ind, <<"1">>>>>>,
           <<<<<<"M", "3">>, NaN>>, <<NaN, <<"P", "1">>>>>>, TRUE),
     Frame(<<0, 1>>, <<<<"0">>, <<"1">>>>, <<<<C4, NaN>>, <<NaN, E4>>>>, FALSE)}

\* the elements of a list
GivenElements ==
    {SeriesObject(<<<<0, C4>>>>), PartObject, IntObject,
     Frame(<<0>>, FillColumns, <<<<C4>>, <<E4>>>>, TRUE)}

GivenScores ==
    GivenFrames
    \cup {SeriesObject(<<<<0, C4>>>>), PartObject, IntObject,
          ScoreObject(<<PartObject, PartObject>>)}
    \cup {ListOf(list) : list \in UNION {[1..n -> GivenElements] : n \in 0..MaxParts}}

InitIndexerInit ==
    /\ defaults = ClassDicts
    /\ \E required \in RequiredTypes : \E given \in GivenScores :
          calls = <<[cls |-> "Indexer", required_score_type |-> required,
                     score |-> given, settings |-> NoSettings]>>
    /\ built = <<>>
    /\ IdleMakeReturn
    /\ IdleRealIndexer
    /\ IdleInterval
    /\ IdleIndFunc
    /\ IdleDissonance
    /\ IdleTables
    /\ IdlePool
    /\ IdleRan
    /\ IdlePiece
    /\ IdleWorkflow

NextIndexerInit == ConstructIndexer

SpecIndexerInit == InitIndexerInit /\ [][NextIndexerInit]_vars

\* the score that an object keeps is of the type its class requires: an
\* object of the type or a list of such objects
HoldsRequired(required, kept) ==
    \/ kept.kind = TYPE_CONVERTER[required]
    \/ /\ kept.kind = "list"
       /\ \A e \in 1..Len(kept.list) : kept.list[e].kind = TYPE_CONVERTER[required]

\* C20: a score whose type does not match the required_score_type of the
\* class makes the constructor raise, so that every Indexer that was
\* constructed holds a score of the required type
C20_RequiredType ==
    \A k \in 1..Len(built) :
        (built[k].kind = "object" /\ built[k].cls = "Indexer") =>
            HoldsRequired(built[k].required_score_type, built[k]._score)

-----------------------------------------------------------------------------
(* Tables as objects: Indexer.run and DurationIndexer.run, which make a    *)
(* new DataFrame, and make_return and _remove_extra_pairs, which work on   *)
(* the DataFrame object they are given.  A DataFrame is known by its       *)
(* place in the heap; the key of a column of an Index is <<label>>, that   *)
(* of a MultiIndex is <<indexer, label>>.                                  *)

MaxTableRows == 2    \* a table given to an indexer has at most MaxTableRows offsets
MaxTables == 2       \* at most MaxTables DataFrame objects are made

\* a music21 note with the type of its tie, or "None"
Event(tie) == <<"Note", tie>>

\* a float that is a number
Duration(d) == <<"float", d>>

\* "isinstance(event, float)"
isfloat(event) == event[1] \in {"NaN", "float"}

\* meter.tie_types
tie_types ==
    [t \in {"start", "continue", "stop"} |->
        CASE t = "start" -> <<"[">>
          [] t = "continue" -> <<"_">>
          [] OTHER -> <<"]">>]

\* meter.tie_ind_func
tie_ind_func(event) ==
    IF isfloat(event) THEN event
    ELSE IF event[1] = "Note" /\ event[2] # "None" THEN tie_types[event[2]]
    ELSE NaN

\* str(self.__class__) of a class of meter.py
MeterClassString(cls) ==
    <<"<", "c", "l", "a", "s", "s", " ", "'", "v", "i", "z", "i", "t", "k",
      "a", ".", "i", "n", "d", "e", "x", "e", "r", "s", ".", "m", "e", "t",
      "e", "r", ".">>
    \o (IF cls = "TieIndexer" THEN <<"T", "i", "e">>
        ELSE <<"D", "u", "r", "a", "t", "i", "o", "n">>)
    \o <<"I", "n", "d", "e", "x", "e", "r", "'", ">">>

\* "str(self.__class__).rsplit('.', 1)[-1][0:-9]" in a class of meter.py
MeterName(cls) ==
    LET tail == AfterLast(MeterClassString(cls), ".")
    IN  SubSeq(tail, 1, Len(tail) - 9)

\* make_return(labels, indices) with a DataFrame: the columns of the object
\* that was given are assigned, and that object is returned
make_return_frame(name, labs, frame) ==
    LET made == make_return(name, labs, frame)
    IN  IF made.kind = "raise" THEN made
        ELSE Frame(made.index, made.columns, made.values, TRUE)

\* "score.columns" of an Index, "score.columns.get_level_values(-1)" of a
\* MultiIndex
LastLevel(frame) ==
    [c \in 1..Len(frame.columns) |-> frame.columns[c][Len(frame.columns[c])]]

\* "score.columns.get_level_values(1)": an Index has the level 0 only
Level1(frame) ==
    IF \E c \in 1..Len(frame.columns) : Len(frame.columns[c]) < 2
            \/ ~frame.multi_index
    THEN Raise("IndexError")
    ELSE Returned([c \in 1..Len(frame.columns) |-> frame.columns[c][2]])

\* "score.applymap(func)" with tie_ind_func
applymap(frame) ==
    [frame EXCEPT !.values =
        [c \in 1..Len(frame.columns) |->
            [r \in 1..Len(frame.index) |-> tie_ind_func(frame.values[c][r])]]]

\* applymap that is given the empty DataFrame too, which pandas then hands
\* to the function as a whole (pandas issue 8222)
IndexerRun_applied(cls, frame) ==
    [ret |-> IF Len(frame.index) = 0 THEN Raise("AttributeError")
             ELSE make_return_frame(MeterName(cls), LastLevel(frame), applymap(frame)),
     called |-> IF Len(frame.index) = 0 THEN {<<0, 0>>}
                ELSE (1..Len(frame.columns)) \X (1..Len(frame.index))]

\* Indexer.run: the new DataFrame or the exception, and the cells that the
\* indexer function was called with
IndexerRun(cls, frame) ==
    [ret |-> make_return_frame(MeterName(cls), LastLevel(frame),
                               IF Len(frame.index) = 0 THEN frame ELSE applymap(frame)),
     called |-> IF Len(frame.index) = 0 THEN {}
                ELSE (1..Len(frame.columns)) \X (1..Len(frame.index))]

\* the durations of the events of a part whose stream ends at highestTime
DurationsOf(column, highestTime) ==
    LET indx == SeriesIndex(dropna(column))
        new == indx \o <<highestTime>>
    IN  [i \in 1..Len(indx) |-> <<indx[i], Duration(new[i + 1] - indx[i])>>]

\* DurationIndexer.run
DurationRun(frame, part_streams) ==
    LET made == IF Len(frame.index) = 0 THEN frame
                  ELSE Concat([c \in 1..Len(frame.columns) |->
                                  DurationsOf(ColumnSeries(frame, c), part_streams[c])])
        level == Level1(frame)
    IN  [ret |-> IF made.kind = "raise" THEN made
                 ELSE IF level.kind = "raise" THEN level
                 ELSE make_return_frame(MeterName("DurationIndexer"), level.value,
                                        made),
         called |-> {}]

\* the keys of the columns that _remove_extra_pairs deletes
DeleteThese(frame, combos, which_ind) ==
    {c \in 1..Len(frame.columns) :
        /\ Len(frame.columns[c]) = 2
        /\ frame.columns[c][1] = which_ind
        /\ frame.columns[c][2] \notin combos}

\* the sequence without the places of a set
RECURSIVE Without(_, _, _)
Without(seq, places, c) ==
    IF c > Len(seq) THEN <<>>
    ELSE (IF c \in places THEN <<>> ELSE <<seq[c]>>) \o Without(seq, places, c + 1)

\* WorkflowManager._remove_extra_pairs: what it leaves in the DataFrame it
\* was given, which it returns; "vert_ints[which_ind]" is a KeyError when
\* no column is under which_ind
remove_extra_pairs(vert_ints, combos, which_ind) ==
    IF \/ ~vert_ints.multi_index
       \/ ~\E c \in 1..Len(vert_ints.columns) : vert_ints.columns[c][1] = which_ind
    THEN Raise("KeyError")
    ELSE LET delete_these == DeleteThese(vert_ints, combos, which_ind)
         IN  [vert_ints EXCEPT !.columns = Without(vert_ints.columns, delete_these, 1),
                               !.values = Without(vert_ints.values, delete_these, 1)]

-----------------------------------------------------------------------------
(* Sessions over tables: an indexer is constructed with a table that       *)
(* exists and run, make_return is called with a table, pairs are removed.  *)

noterest_ind ==
    <<"n", "o", "t", "e", "r", "e", "s", "t", ".", "N", "o", "t", "e", "R",
      "e", "s", "t", "I", "n", "d", "e", "x", "e", "r">>

TableLabels == <<<<"0">>, <<"1">>>>

TableCells == {NaN, Event("None"), Event("start")}

TableClasses == {"TieIndexer", "DurationIndexer"}

\* a call on the table at a place of the heap, and what it returned
Call(op, given, returned, called) ==
    [kind |-> "call", op |-> op, given |-> given, ret |-> returned, called |-> called]

\* the tables of NoteRestIndexer and the like tables whose columns are an
\* Index
InitTables ==
    /\ \E n \in 0..Len(TableLabels), rows \in 0..MaxTableRows, multi \in BOOLEAN :
         \E values \in [1..n -> [1..rows -> TableCells]] :
            heap = << Frame([r \in 1..rows |-> r - 1],
                            [c \in 1..n |-> IF multi THEN <<noterest_ind, TableLabels[c]>>
                                            ELSE <<TableLabels[c]>>],
                            values, multi) >>
    /\ held = Pending
    /\ outcome = Pending
    /\ IdleMakeReturn
    /\ IdleRealIndexer
    /\ IdleInterval
    /\ IdleIndFunc
    /\ IdleDissonance
    /\ IdleConstruct
    /\ IdlePool
    /\ IdleRan
    /\ IdlePiece
    /\ IdleWorkflow

\* TieIndexer(score) or DurationIndexer(score, part_streams): the object
\* keeps the DataFrame it is given, and every part ends after the last offset
NewIndexer ==
    /\ \E cls \in TableClasses, a \in DOMAIN heap :
        /\ IndexerInit("pandas.DataFrame", heap[a]).kind = "return"
        /\ held' = [kind |-> "object", cls |-> cls, _score |-> a,
                    _part_streams |-> [c \in 1..Len(TableLabels) |-> MaxTableRows]]
        /\ outcome' = Call("init", a, Returned(a), {})
    /\ UNCHANGED heap
    /\ UNCHANGED outsideTables

\* run() of the indexer: the DataFrame it returns is a new object
RunHeld ==
    /\ held.kind = "object"
    /\ Len(heap) < MaxTables
    /\ \E ran \in {IF held.cls = "DurationIndexer"
                   THEN DurationRun(heap[held._score], held._part_streams)
                   ELSE IndexerRun(held.cls, heap[held._score])} :
        /\ heap' = IF ran.ret.kind = "raise" THEN heap ELSE Append(heap, ran.ret)
        /\ outcome' = Call("run", held._score,
                           IF ran.ret.kind = "raise" THEN ran.ret
                           ELSE Returned(Len(heap) + 1),
                           ran.called)
    /\ UNCHANGED held
    /\ UNCHANGED outsideTables

\* make_return(labels, indices) of the indexer with a DataFrame that exists
CallMakeReturn ==
    /\ held.kind = "object"
    /\ \E a \in DOMAIN heap, k \in 0..Len(TableLabels) :
        \E made \in {make_return_frame(MeterName(held.cls), SubSeq(TableLabels, 1, k),
                                        heap[a])} :
            /\ heap' = [heap EXCEPT ![a] = IF made.kind = "raise" THEN @ ELSE made]
            /\ outcome' = Call("make_return", a,
                               IF made.kind = "raise" THEN made ELSE Returned(a), {})
    /\ UNCHANGED held
    /\ UNCHANGED outsideTables

\* WorkflowManager._remove_extra_pairs(vert_ints, combos, which_ind) with a
\* DataFrame that exists
RemoveExtraPairs ==
    /\ \E a \in DOMAIN heap, combos \in SUBSET Range(TableLabels) :
        \E which_ind \in {int_ind} \cup {heap[a].columns[c][1] : c \in 1..Len(heap[a].columns)} :
        \E kept \in {remove_extra_pairs(heap[a], combos, which_ind)} :
            /\ heap' = [heap EXCEPT ![a] = IF kept.kind = "raise" THEN @ ELSE kept]
            /\ outcome' = Call("remove_extra_pairs", a,
                               IF kept.kind = "raise" THEN kept ELSE Returned(a), {})
    /\ UNCHANGED held
    /\ UNCHANGED outsideTables

NextRun == NewIndexer \/ RunHeld

SpecRun == InitTables /\ [][NextRun]_vars

NextTables == NewIndexer \/ RunHeld \/ CallMakeReturn \/ RemoveExtraPairs

SpecTables == InitTables /\ [][NextTables]_vars

\* C21: run() of an indexer whose table has no offsets (TieIndexer, which
\* inherits Indexer.run, with any table; DurationIndexer with a table whose
\* columns are a MultiIndex) returns and does not raise, the function was
\* called with no cell, and the DataFrame returned has no offsets and one
\* empty column for every column of the table, labelled with the name of
\* the indexer and the label of that column.
C21_EmptyRun ==
    (/\ outcome.kind = "call"
     /\ outcome.op = "run"
     /\ Len(heap[outcome.given].index) = 0
     /\ (held.cls = "DurationIndexer" => heap[outcome.given].multi_index))
    => /\ outcome.ret.kind = "return"
       /\ outcome.called = {}
       /\ LET given == heap[outcome.given]
              made == heap[outcome.ret.value]
          IN  /\ made.index = <<>>
              /\ made.multi_index
              /\ Len(made.columns) = Len(given.columns)
              /\ \A c \in 1..Len(given.columns) :
                    /\ made.columns[c] = <<MeterName(held.cls),
                                           given.columns[c][Len(given.columns[c])]>>
                    /\ made.values[c] = <<>>

C21_Witness ==
    /\ outcome.kind = "call"
    /\ outcome.op = "run"
    /\ outcome.ret.kind = "return"
    /\ held.cls = "TieIndexer"
    /\ heap[outcome.given].index = <<>>
    /\ Len(heap[outcome.given].columns) = 2
    /\ heap[outcome.ret.value].columns[2] = <<<<"T", "i", "e">>, <<"1">>>>

\* C22: a call never changes a DataFrame that exists: after every step each
\* table of the heap has the columns, the labels, the offsets and the cells
\* that it had before the step.
C22_NeverChanged == [][\A a \in DOMAIN heap : heap'[a] = heap[a]]_vars

-----------------------------------------------------------------------------
(* IntervalIndexer.run with and without an MPController.  The pool of      *)
(* workers is outside the modules at hand; it is taken as the description  *)
(* has it: a fixed number of workers, results that carry the position of   *)
(* their job, and a caller that puts them back in the order of the jobs.   *)

MaxWorkers == 2      \* the pool has MaxWorkers workers

PoolPitches == {C4, E4, C5}

\* the job of a combination: the Series of the parts that it names, in its
\* order, given to the indexer function
JobOf(parts, func, combo) ==
    series_indexer([p \in 1..Len(combo) |-> parts[combo[p] + 1]], func)

\* the results in the order they came back
ByPosition_as_arrived(came, n) == [i \in 1..n |-> came[i][2]]

\* the results of n jobs by the position each one carries
ByPosition(came, n) ==
    [i \in 1..n |-> LET k == CHOOSE j \in 1..Len(came) : came[j][1] = i
                    IN  came[k][2]]

\* "for i, combo in enumerate(combinations): post[str(combo)] = results[i]"
PostOf(combos, outcomes) ==
    IF \E i \in 1..Len(outcomes) : outcomes[i].kind = "raise"
    THEN Raise("Exception")
    ELSE Returned([key \in {str_list(combos[i]) : i \in 1..Len(combos)} |->
             LET latest == CHOOSE i \in 1..Len(combos) :
                              /\ str_list(combos[i]) = key
                              /\ \A j \in 1..Len(combos) :
                                   str_list(combos[j]) = key => j <= i
             IN  outcomes[latest].value])

\* IntervalIndexer(score, settings, mpc) with parts of one event
InitPool ==
    /\ \E n \in 0..MaxParts :
         \E pitches \in [1..n -> PoolPitches] :
            score = [p \in 1..n |-> <<<<0, pitches[p]>>>>]
    /\ \E q \in BOOLEAN :
         /\ settings = IntervalSettings(GivenSettings({"quality"}, q, "compound"))
         /\ indexer_func = IndexerFuncFor(settings)
    /\ mpc \in BOOLEAN
    /\ combinations = <<>>
    /\ post = Pending
    /\ queue = <<>>
    /\ running = {}
    /\ arrived = <<>>
    /\ IdleMakeReturn
    /\ IdleRealIndexer
    /\ IdleIndFunc
    /\ IdleDissonance
    /\ IdleConstruct
    /\ IdleTables
    /\ IdleRan
    /\ IdlePiece
    /\ IdleWorkflow

\* IntervalIndexer.run() without an MPController: the jobs are done one
\* after the other and the dict is returned
RunSerial ==
    /\ ~mpc
    /\ post = Pending
    /\ combinations' = CombinationsFrom(0, Len(score))
    /\ post' = PostOf(combinations', do_multiprocessing(score, indexer_func, combinations'))
    /\ UNCHANGED <<score, settings, indexer_func>>
    /\ UNCHANGED <<mpc, queue, running, arrived>>
    /\ UNCHANGED outsideIntervalPool

\* IntervalIndexer.run() with an MPController: the combinations are handed
\* to the pool
Dispatch ==
    /\ mpc
    /\ post = Pending
    /\ combinations = <<>>
    /\ queue = <<>> /\ running = {} /\ arrived = <<>>
    /\ Len(score) > 1
    /\ combinations' = CombinationsFrom(0, Len(score))
    /\ queue' = [i \in 1..Len(combinations') |-> i]
    /\ UNCHANGED <<score, settings, indexer_func, post>>
    /\ UNCHANGED <<mpc, running, arrived>>
    /\ UNCHANGED outsideIntervalPool

\* a worker that is free takes the job that waits longest
StartJob ==
    /\ queue # <<>>
    /\ Cardinality(running) < MaxWorkers
    /\ running' = running \cup {Head(queue)}
    /\ queue' = Tail(queue)
    /\ UNCHANGED varsInterval
    /\ UNCHANGED <<mpc, arrived>>
    /\ UNCHANGED outsideIntervalPool

\* a worker is done with its job, whichever worker is first
FinishJob ==
    /\ \E i \in running :
        /\ running' = running \ {i}
        /\ arrived' = Append(arrived, <<i, JobOf(score, indexer_func, combinations[i])>>)
    /\ UNCHANGED varsInterval
    /\ UNCHANGED <<mpc, queue>>
    /\ UNCHANGED outsideIntervalPool

\* all jobs are back (or there was none): run() makes the dict and returns
Collect ==
    /\ mpc
    /\ post = Pending
    /\ Len(score) > 1 => combinations # <<>>
    /\ queue = <<>> /\ running = {}
    /\ Len(arrived) = Len(CombinationsFrom(0, Len(score)))
    /\ combinations' = CombinationsFrom(0, Len(score))
    /\ post' = PostOf(combinations', ByPosition(arrived, Len(combinations')))
    /\ UNCHANGED <<score, settings, indexer_func>>
    /\ UNCHANGED <<mpc, queue, running, arrived>>
    /\ UNCHANGED outsideIntervalPool

NextPool == RunSerial \/ Dispatch \/ StartJob \/ FinishJob \/ Collect

SpecPool == InitPool /\ [][NextPool]_vars

\* C23: when run() has returned, with or without the MPController and in
\* whatever order the workers were done, the result under the i-th
\* combination is the one computed of the two parts that the combination
\* names, upper part first, and the whole dict is the one that the serial
\* run of the same score returns.
C23_ResultsByPosition ==
    post.kind = "return" =>
        /\ \A i \in 1..Len(combinations) :
              post.value[str_list(combinations[i])]
                  = series_indexer(<<score[combinations[i][1] + 1],
                                     score[combinations[i][2] + 1]>>, indexer_func).value
        /\ post = IntervalRun(score, indexer_func)

\* the pool was used and the second job came back before the first, with
\* another result
C23_Witness ==
    /\ post.kind = "return"
    /\ mpc
    /\ Len(arrived) > 1
    /\ arrived[1][1] = 2
    /\ arrived[2][1] = 1
    /\ arrived[1][2] # arrived[2][2]

-----------------------------------------------------------------------------
(* NotaCambiataIndexer: cambiata_ind_func over four rows, and run.         *)

\* what cambiata_ind_func reads of its four rows for a pair of voices
CambiataReadings(combo, row_one, row_two, row_three, row_four) ==
    LET lower_i == int(split(combo, ",")[2])
        upper_i == int(split(combo, ",")[1])
    IN  [lower_i |-> lower_i,
         upper_i |-> upper_i,
         a |-> interval_to_int(row_two.horiz[upper_i + 1]),
         b |-> interval_to_int(row_three.horiz[upper_i + 1]),
         c |-> interval_to_int(row_four.horiz[upper_i + 1]),
         p |-> interval_to_int(Loc(row_one.int, combo)),
         d |-> interval_to_int(Loc(row_two.diss, combo)),
         x |-> interval_to_int(row_two.horiz[lower_i + 1]),
         y |-> interval_to_int(row_three.horiz[lower_i + 1]),
         z |-> interval_to_int(row_four.horiz[lower_i + 1]),
         beat_strength_two |-> BeatStrength(row_two, upper_i, lower_i)]

\* what cambiata_ind_func writes for a pair of voices; .5 is 4 eighths
CambiataCell(combo, row_one, row_two, row_three, row_four) ==
    IF ~IsDissonance(Loc(row_two.diss, combo)) THEN CAMB_NODISS_LABEL
    ELSE LET r == CambiataReadings(combo, row_one, row_two, row_three, row_four)
         IN  IF /\ IntEq(r.a, -2) /\ IntEq(r.x, 1) /\ IntEq(r.b, -3) /\ IntEq(r.y, 1)
                /\ IntEq(r.c, 2) /\ FloatLt(r.beat_strength_two, Float(4))
             THEN VoiceLabel(r.upper_i, CAMB_LABEL)
             ELSE IF /\ IntEq(r.x, -2) /\ IntEq(r.a, 1) /\ IntEq(r.y, -3) /\ IntEq(r.b, 1)
                     /\ IntEq(r.z, 2) /\ FloatLt(r.beat_strength_two, Float(4))
             THEN VoiceLabel(r.lower_i, CAMB_LABEL)
             ELSE CAMB_OTHER_LABEL

\* cambiata_ind_func(obj): the Series indexed as the dissonance index of
\* the first row is
cambiata_ind_func(obj_) ==
    [i \in 1..Len(obj_[1].diss) |->
        <<obj_[1].diss[i][1],
          CambiataCell(obj_[1].diss[i][1], obj_[1], obj_[2], obj_[3], obj_[4])>>]

\* "for i in xrange(len(self._score.index) - 4)": one window too few
CambiataWindows_but_last(n) == 2..(n - 3)

\* "for i in xrange(len(self._score.index) - 3): post[i + 1] = ...": the
\* rows, counted from 1, that are given the result of a window
CambiataWindows(n) == 2..(n - 2)

\* "for i in [0, -1, -2]": the rows, counted from 1, that are given the
\* label of no dissonance
CambiataLabelled(n) == {1, n, n - 1}

\* the list "post" of NotaCambiataIndexer.run after its two loops; a row
\* that neither loop has written is the nan it was made with, which the
\* DataFrame spreads over the columns
CambiataRows(frame) ==
    LET n == Len(frame.index)
        Window(k) == <<iloc(frame, k - 2), iloc(frame, k - 1), iloc(frame, k),
                       iloc(frame, k + 1)>>
        second == cambiata_ind_func(Window(2))
    IN  [k \in 1..n |->
            IF k \in CambiataLabelled(n) THEN NoDissRow(second, CAMB_NODISS_LABEL)
            ELSE IF k \in CambiataWindows(n) THEN cambiata_ind_func(Window(k))
            ELSE NoDissRow(second, NaN)]

\* the kinds of the rows of a table for the nota cambiata: the highest
\* voice steps down on a weak beat to a fourth with the other voices, it
\* leaps down a third, or it steps up; the other voices are held
CambiataKinds == {"weak_diss_down", "leap_down", "step_up"}

CambiataKindCell(kind, column) ==
    LET with_highest == split(column[2], ",")[1] = <<"0">>
    IN  IF column[1] = diss_ind
        THEN (IF kind = "weak_diss_down" /\ with_highest THEN <<"4">> ELSE NaN)
        ELSE IF column[1] = int_ind
        THEN (IF kind = "weak_diss_down" /\ with_highest THEN <<"4">> ELSE <<"3">>)
        ELSE IF column[1] = horiz_int_ind
        THEN (IF column[2] # <<"0">> THEN <<"1">>
              ELSE IF kind = "weak_diss_down" THEN <<"-", "2">>
              ELSE IF kind = "leap_down" THEN <<"-", "3">>
              ELSE <<"2">>)
        ELSE (IF kind = "weak_diss_down" THEN Float(2) ELSE Float(8))

CambiataTableOf(kinds) ==
    [kind |-> "frame",
     index |-> [r \in 1..Len(kinds) |-> r - 1],
     columns |-> TableColumns,
     values |-> [c \in 1..Len(TableColumns) |->
                    [r \in 1..Len(kinds) |-> CambiataKindCell(kinds[r], TableColumns[c])]]]

InitCambiata ==
    /\ klass = "NotaCambiataIndexer"
    /\ \E n \in 0..MaxRows : \E kinds \in [1..n -> CambiataKinds] :
          table = CambiataTableOf(kinds)
    /\ indexer = Pending
    /\ result = Pending
    /\ IdleMakeReturn
    /\ IdleRealIndexer
    /\ IdleInterval
    /\ IdleIndFunc
    /\ IdleConstruct
    /\ IdleTables
    /\ IdlePool
    /\ IdleRan
    /\ IdlePiece
    /\ IdleWorkflow

\* NotaCambiataIndexer.run of an indexer that was constructed; with fewer
\* than four rows "post[1]" is no Series
RunCambiata ==
    /\ indexer.kind = "object"
    /\ klass = "NotaCambiataIndexer"
    /\ result = Pending
    /\ IF Len(indexer._score.index) < 2 THEN result' = Raise("IndexError")
       ELSE IF Len(indexer._score.index) < 4 THEN result' = Raise("TypeError")
       ELSE \E rows \in {CambiataRows(indexer._score)} :
               result' = RunReturn(klass, indexer._score, rows)
    /\ UNCHANGED <<table, klass, indexer>>
    /\ UNCHANGED outsideDissonance

NextCambiata == Construct \/ RunCambiata

SpecCambiata == InitCambiata /\ [][NextCambiata]_vars

\* C24: the run of a NotaCambiataIndexer over n >= 4 rows gives every pair
\* of voices a column with a cell in each of the n rows: the first row and
\* the last two rows hold the label of no dissonance, and every row k
\* between them (1 <= k <= n-3, counted from 0) holds what
\* cambiata_ind_func returns for the four rows k-1, k, k+1 and k+2, which
\* are all rows of the table.
C24_CambiataRows ==
    (result.kind = "return") =>
        LET frame == result.value
            n == Len(table.index)
            cols == ColumnsUnder(frame, IndexerName(klass), 1)
            Four(k) == <<iloc(table, k - 1), iloc(table, k), iloc(table, k + 1),
                         iloc(table, k + 2)>>
        IN  /\ n >= 4
            /\ frame.index = table.index
            /\ [j \in 1..Len(cols) |-> frame.columns[cols[j]][2]]
                 = [j \in 1..Len(iloc(table, 0).diss) |-> iloc(table, 0).diss[j][1]]
            /\ \A j \in 1..Len(cols) :
                 /\ Len(frame.values[cols[j]]) = n
                 /\ frame.values[cols[j]][1] = CAMB_NODISS_LABEL
                 /\ frame.values[cols[j]][n - 1] = CAMB_NODISS_LABEL
                 /\ frame.values[cols[j]][n] = CAMB_NODISS_LABEL
                 /\ \A k \in 1..(n - 3) :
                      /\ k - 1 >= 0 /\ k + 2 <= n - 1
                      /\ frame.values[cols[j]][k + 1] =
                            Loc(cambiata_ind_func(Four(k)), frame.columns[cols[j]][2])

\* a figure in the last window of a table of five rows: the highest voice
\* is given the label of the nota cambiata in the row of its dissonance
C24_Witness ==
    /\ klass = "NotaCambiataIndexer"
    /\ result.kind = "return"
    /\ Len(table.index) = 5
    /\ \E c \in 1..Len(result.value.columns) :
         /\ result.value.columns[c] =
              << <<"N", "o", "t", "a", "C", "a", "m", "b", "i", "a", "t", "a">>,
                 PairLabel(0, 1) >>
         /\ result.value.values[c] = <<NaN, NaN, <<"0", ":", "N", "C">>, NaN, NaN>>

-----------------------------------------------------------------------------
(* The decision of cons_maker_ind_func for a pair, by the pair's own       *)
(* intervals.                                                              *)

\* what the decision for a pair is when the vertical intervals before and
\* after it and the melodic intervals of its two voices are those of the
\* pair itself
OwnDecision(obj_, pair) ==
    IF Loc(obj_[2].diss, pair) \in MadeConsonant
    THEN ConsMakerCell(obj_, ConsReadings(pair, obj_[1], obj_[2], obj_[3]), pair)
    ELSE Returned(Loc(obj_[2].diss, pair))

\* C25: the Series that cons_maker_ind_func returns has one value for
\* every pair, and the value of a pair is decided with the vertical
\* intervals of that pair before and after the offset and the melodic
\* intervals of the two voices of that pair, whatever the other pairs hold.
C25_OwnPairDecides ==
    (ind_func = "cons_maker_ind_func" /\ ind_result.kind = "return") =>
        /\ Len(ind_result.value) = Len(obj[2].diss)
        /\ \A j \in 1..Len(obj[2].diss) :
              /\ ind_result.value[j][1] = obj[2].diss[j][1]
              /\ Returned(ind_result.value[j][2]) = OwnDecision(obj, obj[2].diss[j][1])

-----------------------------------------------------------------------------
(* Windexer(score, settings) and its run.                                  *)

\* "self._score[indices[x]:indices[l]]": the rows from the label at x up
\* to the label at l, both counted from 0
RowsBetween(frame, x, l) ==
    Frame(SubSeq(frame.index, x + 1, l + 1), frame.columns,
          [c \in 1..Len(frame.columns) |-> SubSeq(frame.values[c], x + 1, l + 1)],
          frame.multi_index)

\* "pandas.concat([windowed, temp])" of two DataFrames with the same columns
ConcatRows(windowed, temp) ==
    Frame(windowed.index \o temp.index, windowed.columns,
          [c \in 1..Len(windowed.columns) |-> windowed.values[c] \o temp.values[c]],
          windowed.multi_index)

\* the loop "while l < len(indices)" of Windexer.run from the window at x
RECURSIVE WindowsFrom(_, _, _, _)
WindowsFrom(frame, windowed, x, l) ==
    IF l >= Len(frame.index) THEN windowed
    ELSE WindowsFrom(frame, ConcatRows(windowed, RowsBetween(frame, x, l)), x + 1, l + 1)

\* Windexer.run: "indices[l]" is an IndexError when the window is larger
\* than the score
WindexerRun(ix, class_dicts) ==
    LET l == SettingsOf(ix, class_dicts)["window_size"] - 1
    IN  IF l >= Len(ix._score.index) THEN Raise("IndexError")
        ELSE Returned(WindowsFrom(ix._score, RowsBetween(ix._score, 0, l), 1, l + 1))

\* a Windexer is given a score of one voice and no settings, or a size of
\* the window
InitWindexer ==
    /\ defaults = ClassDicts
    /\ \E n \in 0..MaxRows : \E voice \in [1..n -> {C4, E4}] :
       \E given \in {NoSettings} \cup {Dict([k \in {"window_size"} |-> w]) : w \in 1..MaxRows} :
          calls = <<[cls |-> "Windexer",
                     score |-> Frame([r \in 1..n |-> r - 1],
                                     FromProduct(noterest_ind, <<<<"0">>>>),
                                     <<voice>>, TRUE),
                     settings |-> given]>>
    /\ built = <<>>
    /\ run_result = Pending
    /\ IdleMakeReturn
    /\ IdleRealIndexer
    /\ IdleInterval
    /\ IdleIndFunc
    /\ IdleDissonance
    /\ IdleTables
    /\ IdlePool
    /\ IdlePiece
    /\ IdleWorkflow

\* run() of the Windexer that was constructed
RunWindexer ==
    /\ built # <<>>
    /\ built[Len(built)].kind = "object"
    /\ built[Len(built)].cls = "Windexer"
    /\ run_result = Pending
    /\ run_result' = WindexerRun(built[Len(built)], defaults)
    /\ UNCHANGED varsConstruct
    /\ UNCHANGED outsideConstructRan

NextWindexer == ConstructWindexer \/ RunWindexer

SpecWindexer == InitWindexer /\ [][NextWindexer]_vars

\* C26: a Windexer that was constructed has a window that is not larger
\* than its score has rows, with the settings it was given or with the
\* default of 4, and its run does not read past the last row.
C26_WindowFits ==
    /\ \A i \in 1..Len(built) :
          (built[i].kind = "object" /\ built[i].cls = "Windexer") =>
              SettingsOf(built[i], defaults)["window_size"] <= Len(built[i]._score.index)
    /\ run_result # Raise("IndexError")

-----------------------------------------------------------------------------
(* ActiveVoicesIndexer.run                                                 *)

\* active_voices.indexer1: a rest and a float, which is what an absent
\* cell holds, count 0
indexer1(x) == IF x = Rest \/ x = NaN THEN 0 ELSE 1

\* the sum of the first c cells of the row r
RECURSIVE SumOfRow(_, _, _)
SumOfRow(frame, r, c) ==
    IF c = 0 THEN 0 ELSE indexer1(frame.values[c][r]) + SumOfRow(frame, r, c - 1)

\* "self.score.applymap(indexer1).sum(axis=1)"
MostOf(frame) ==
    [r \in 1..Len(frame.index) |-> <<frame.index[r], SumOfRow(frame, r, Len(frame.columns))>>]

\* "most.drop(label)"
drop(series, label) == SelectSeq(series, LAMBDA item : item[1] # label)

\* "for n, ind in reversed(list(enumerate(most)))" from the n-th count
\* down, n counted from 1: "most.iloc[n - 1]" of the first count is
\* "most.iloc[-1]", the last count that is left
RECURSIVE DropFrom(_, _, _)
DropFrom(counts, series, n) ==
    IF n = 0 THEN series
    ELSE DropFrom(counts,
                  IF counts[n][2] = (IF n > 1 THEN series[n - 1][2]
                                     ELSE series[Len(series)][2])
                  THEN drop(series, counts[n][1]) ELSE series,
                  n - 1)

\* str(self.__class__) of the ActiveVoicesIndexer
ActiveVoicesClassString ==
    <<"<", "c", "l", "a", "s", "s", " ", "'", "v", "i", "s", ".", "a", "n",
      "a", "l", "y", "z", "e", "r", "s", ".", "i", "n", "d", "e", "x", "e",
      "r", "s", ".", "a", "c", "t", "i", "v", "e", "_", "v", "o", "i", "c",
      "e", "s", ".", "A", "c", "t", "i", "v", "e", "V", "o", "i", "c", "e",
      "s", "I", "n", "d", "e", "x", "e", "r", "'", ">">>

ActiveVoicesLabel ==
    <<"A", "c", "t", "i", "v", "e", " ", "V", "o", "i", "c", "e", "s">>

\* ActiveVoicesIndexer.run
ActiveVoicesRun(ix, class_dicts) ==
    LET counts == MostOf(ix.score)
        left == IF SettingsOf(ix, class_dicts)["show_all"] THEN counts
                ELSE DropFrom(counts, counts, Len(counts))
        tail == AfterLast(ActiveVoicesClassString, ".")
    IN  make_return(SubSeq(tail, 1, Len(tail) - 9), <<ActiveVoicesLabel>>,
                    ListOf(<<left>>))

\* an ActiveVoicesIndexer is given a score of two voices
InitActiveVoices ==
    /\ defaults = ClassDicts
    /\ \E n \in 0..(MaxOffset + 1) :
       \E upper \in [1..n -> {NaN, C4, Rest}] : \E lower \in [1..n -> {NaN, C4, Rest}] :
       \E given \in ActiveVoicesSettings :
          calls = <<[cls |-> "ActiveVoicesIndexer",
                     score |-> Frame([r \in 1..n |-> r - 1], FillColumns,
                                     <<upper, lower>>, TRUE),
                     settings |-> given]>>
    /\ built = <<>>
    /\ run_result = Pending
    /\ IdleMakeReturn
    /\ IdleRealIndexer
    /\ IdleInterval
    /\ IdleIndFunc
    /\ IdleDissonance
    /\ IdleTables
    /\ IdlePool
    /\ IdlePiece
    /\ IdleWorkflow

\* run() of the ActiveVoicesIndexer that was constructed
RunActiveVoices ==
    /\ built # <<>>
    /\ built[Len(built)].kind = "object"
    /\ built[Len(built)].cls = "ActiveVoicesIndexer"
    /\ run_result = Pending
    /\ \E made \in {ActiveVoicesRun(built[Len(built)], defaults)} :
          run_result' = IF made.kind = "raise" THEN made ELSE Returned(made)
    /\ UNCHANGED varsConstruct
    /\ UNCHANGED outsideConstructRan

NextActiveVoices == ConstructActiveVoices \/ RunActiveVoices

SpecActiveVoices == InitActiveVoices /\ [][NextActiveVoices]_vars

\* the number of the voices of the table that the indexer counts which
\* hold, at the row r, a value that is neither a rest nor absent
ActiveAt(frame, r) ==
    Cardinality({c \in 1..Len(frame.columns) : frame.values[c][r] \notin {Rest, NaN}})

\* C27: the run of an ActiveVoicesIndexer returns one column: with
\* 'show_all' True it has the count of the active voices at every offset
\* of the table, with 'show_all' False it has the count at the first offset
\* and at exactly those later offsets where the count is not the count of
\* the offset just before.
C27_ChangesOnly ==
    (run_result.kind = "return" /\ built # <<>> /\ built[1].cls = "ActiveVoicesIndexer") =>
        LET counted == built[1].score
            shown == {r \in 1..Len(counted.index) :
                         \/ SettingsOf(built[1], defaults)["show_all"]
                         \/ r = 1
                         \/ ActiveAt(counted, r) # ActiveAt(counted, r - 1)}
        IN  /\ Len(run_result.value.columns) = 1
            /\ {run_result.value.index[i] : i \in 1..Len(run_result.value.index)}
                 = {counted.index[r] : r \in shown}
            /\ \A i \in 1..Len(run_result.value.index) : \A r \in shown :
                  run_result.value.index[i] = counted.index[r]
                      => run_result.value.values[1][i] = ActiveAt(counted, r)

-----------------------------------------------------------------------------
(* IndexedPiece: the results it keeps                                      *)

MaxGets == 3         \* at most MaxGets get calls are made on a piece

\* the names under which IndexedPiece.get finds the indexers that keep
\* their result, and the names of the tables these are made from
PieceIndexers ==
    {"noterest", "duration", "tie", "active_voices", "beat_strength", "dissonance",
     "horizontal_interval", "vertical_interval"}

PieceTables == {"part_streams", "m21_objs", "m21_nrc_objs", "m21_nrc_objs_no_tied"}

\* a piece: what it keeps and how many times each indexer has run for it
Piece(kept, runs_) == [analyses |-> kept, executed |-> runs_]

\* the result of the run of an indexer on a piece: which run of the
\* indexer made it
ResultOf(name, nth) == [by |-> name, nth |-> nth]

\* what a call on a piece returns: the piece after it and the value
Gives(piece_, value_) == [piece |-> piece_, value |-> value_]

\* "Indexer(...).run()" on a piece
RunIndexer(piece_, name) ==
    LET nth == piece_.executed[name] + 1
    IN  Gives([piece_ EXCEPT !.executed[name] = nth], ResultOf(name, nth))

\* "self._analyses[name] = value"
Keep(given, name) ==
    Gives([given.piece EXCEPT !.analyses = Update(@, [k \in {name} |-> given.value])],
          given.value)

\* "if name not in self._analyses: self._analyses[name] = ...;
\*  return self._analyses[name]"
Kept(piece_, name, made) ==
    IF name \in DOMAIN piece_.analyses THEN Gives(piece_, piece_.analyses[name])
    ELSE Keep(made, name)

\* IndexedPiece._get_part_streams, _get_m21_objs, _get_m21_nrc_objs and
\* _get_m21_nrc_objs_no_tied
get_part_streams(piece_) ==
    Kept(piece_, "part_streams", Gives(piece_, ResultOf("part_streams", 0)))

get_m21_objs(piece_) ==
    Kept(piece_, "m21_objs",
         Gives(get_part_streams(piece_).piece, ResultOf("m21_objs", 0)))

get_m21_nrc_objs(piece_) ==
    Kept(piece_, "m21_nrc_objs",
         Gives(get_m21_objs(piece_).piece, ResultOf("m21_nrc_objs", 0)))

get_m21_nrc_objs_no_tied(piece_) ==
    Kept(piece_, "m21_nrc_objs_no_tied",
         Gives(get_m21_nrc_objs(piece_).piece, ResultOf("m21_nrc_objs_no_tied", 0)))

\* IndexedPiece._get_noterest
get_noterest(piece_) ==
    Kept(piece_, "noterest",
         RunIndexer(get_m21_nrc_objs_no_tied(piece_).piece, "noterest"))

\* IndexedPiece._get_duration without data
get_duration(piece_) ==
    Kept(piece_, "duration",
         RunIndexer(get_part_streams(get_noterest(piece_).piece).piece, "duration"))

\* IndexedPiece._get_tie without data
get_tie(piece_) ==
    Kept(piece_, "tie", RunIndexer(get_m21_nrc_objs(piece_).piece, "tie"))

\* IndexedPiece._get_active_voices without data and without settings: the
\* result is kept by the first request, and every request runs the indexer
get_active_voices(piece_) ==
    IF "active_voices" \notin DOMAIN piece_.analyses
    THEN Keep(RunIndexer(get_noterest(piece_).piece, "active_voices"), "active_voices")
    ELSE RunIndexer(get_noterest(piece_).piece, "active_voices")

\* IndexedPiece._get_beat_strength
get_beat_strength(piece_) ==
    Kept(piece_, "beat_strength",
         RunIndexer(get_m21_nrc_objs_no_tied(piece_).piece, "beat_strength"))

\* the first statement of IndexedPiece._get_horizontal_interval and of
\* _get_vertical_interval: the intervals with every detail are made once
get_intervals(piece_, name) ==
    Kept(piece_, name, RunIndexer(get_noterest(piece_).piece, name))

\* IndexedPiece._get_dissonance
get_dissonance(piece_) ==
    Kept(piece_, "dissonance",
         RunIndexer(get_intervals(
                        get_intervals(
                            get_duration(get_beat_strength(piece_).piece).piece,
                            "horizontal_interval").piece,
                        "vertical_interval").piece,
                    "dissonance"))

\* IndexedPiece.get(analyzer_cls) without data and without settings
get(piece_, analyzer_cls) ==
    CASE analyzer_cls = "noterest" -> get_noterest(piece_)
      [] analyzer_cls = "duration" -> get_duration(piece_)
      [] analyzer_cls = "tie" -> get_tie(piece_)
      [] analyzer_cls = "active_voices" -> get_active_voices(piece_)
      [] analyzer_cls = "beat_strength" -> get_beat_strength(piece_)
      [] analyzer_cls = "dissonance" -> get_dissonance(piece_)
      [] analyzer_cls \in {"horizontal_interval", "vertical_interval"} ->
            get_intervals(piece_, analyzer_cls)
      [] OTHER -> Gives(piece_, Raise("KeyError"))

\* a piece that has been imported and asked nothing
InitPiece ==
    /\ analyses = <<>>
    /\ executed = [name \in PieceIndexers |-> 0]
    /\ got = <<>>
    /\ IdleMakeReturn
    /\ IdleRealIndexer
    /\ IdleInterval
    /\ IdleIndFunc
    /\ IdleDissonance
    /\ IdleConstruct
    /\ IdleTables
    /\ IdlePool
    /\ IdleRan
    /\ IdleWorkflow

\* piece.get(analyzer_cls)
Get(analyzer_cls) ==
    /\ Len(got) < MaxGets
    /\ \E given \in {get(Piece(analyses, executed), analyzer_cls)} :
          /\ analyses' = given.piece.analyses
          /\ executed' = given.piece.executed
          /\ got' = Append(got, [asked |-> analyzer_cls, value |-> given.value])
    /\ UNCHANGED outsidePiece

NextPiece == \E analyzer_cls \in PieceIndexers : Get(analyzer_cls)

SpecPiece == InitPiece /\ [][NextPiece]_vars

\* the indexers the results of which a piece keeps under their name
CachingIndexers ==
    {"noterest", "duration", "tie", "active_voices", "beat_strength", "dissonance"}

\* C28: in any sequence of get calls without data and with the default
\* settings, no caching indexer runs a second time for the piece: a result
\* that is kept under the name of the indexer stays as it is, no step runs
\* that indexer again, and a request for it returns what is kept.
C28_ExecutedOnce ==
    [][\A name \in CachingIndexers :
          /\ executed'[name] <= 1
          /\ name \in DOMAIN analyses =>
                /\ name \in DOMAIN analyses'
                /\ analyses'[name] = analyses[name]
                /\ executed'[name] = executed[name]
          /\ (Len(got') > Len(got) /\ got'[Len(got')].asked = name) =>
                /\ name \in DOMAIN analyses'
                /\ got'[Len(got')].value = analyses'[name]]_vars

-----------------------------------------------------------------------------
(* IndexedPiece: horizontal intervals                                      *)

\* the values of the interval settings; True and False are the Python
\* values, the others are strings
SettingValues ==
    [k \in {"directed", "quality", "simple or compound", "horiz_attach_later"} |->
        CASE k = "quality" -> {"True", "False", "diatonic with quality"}
          [] k = "simple or compound" -> {"compound", "simple"}
          [] OTHER -> {"True", "False"}]

\* "'directed' in settings and settings['directed'] == True and 'quality'
\*  in settings and settings['quality'] in (True, 'diatonic with quality')
\*  and 'simple or compound' in settings and settings['simple or
\*  compound'] == 'compound'"
AsKept(items) ==
    /\ "directed" \in DOMAIN items /\ items["directed"] = "True"
    /\ "quality" \in DOMAIN items /\ items["quality"] \in {"True", "diatonic with quality"}
    /\ "simple or compound" \in DOMAIN items /\ items["simple or compound"] = "compound"

\* "interval.IntervalReindexer(table, settings).run()": every interval of
\* the table is put again in the way the settings ask for, at its place
IntervalReindexer(frame, items) ==
    [frame EXCEPT !.values =
        [c \in 1..Len(frame.columns) |->
            [r \in 1..Len(frame.index) |->
                IF frame.values[c][r] = NaN THEN NaN
                ELSE <<"reindexed", frame.values[c][r], items>>]]]

\* "ser.index = numpy.insert(ser.index, 0, 0.0)[:-1]"
InsertFirst(series) ==
    [k \in 1..Len(series) |-> <<IF k = 1 THEN 0 ELSE series[k - 1][1], series[k][2]>>]

\* indexed_piece._attach_before
attach_before(frame) ==
    LET re_indexed == [c \in 1..Len(frame.columns) |->
                          InsertFirst(dropna(ColumnSeries(frame, c)))]
        joined == Concat(re_indexed)
    IN  IF joined.kind = "raise" THEN joined
        ELSE Frame(joined.index, frame.columns, joined.values, frame.multi_index)

\* IndexedPiece._get_horizontal_interval of a piece that keeps its
\* horizontal intervals
get_horizontal_interval(kept, settings_) ==
    IF settings_.kind # "None" /\ ~AsKept(settings_.items)
    THEN LET reindexed == IntervalReindexer(kept, settings_.items)
         IN  IF \/ "horiz_attach_later" \notin DOMAIN settings_.items
                \/ settings_.items["horiz_attach_later"] = "False"
             THEN attach_before(reindexed)
             ELSE reindexed
    ELSE kept

\* the settings a request for intervals is made with
HorizontalSettings ==
    {NoSettings} \cup
    UNION {{Dict(items) : items \in [keys -> UNION {SettingValues[k] : k \in keys}]} :
               keys \in SUBSET (DOMAIN SettingValues)}

\* a piece of one or two parts that keeps its horizontal intervals, each
\* at the offset of the second of its two notes
InitHorizontal ==
    /\ \E rows \in 1..MaxTableRows : \E parts_ \in 1..2 :
       \E cells \in [1..parts_ -> [1..rows -> {NaN, <<"M", "2">>, <<"-", "m", "3">>}]] :
          /\ \A r \in 1..rows : \E c \in 1..parts_ : cells[c][r] # NaN
          /\ analyses = [k \in {"horizontal_interval"} |->
                            Frame([r \in 1..rows |-> r],
                                  [c \in 1..parts_ |->
                                      <<horiz_int_ind, str_nat(c - 1)>>],
                                  cells, TRUE)]
    /\ executed = [name \in PieceIndexers |->
                      IF name \in {"noterest", "horizontal_interval"} THEN 1 ELSE 0]
    /\ got = <<>>
    /\ IdleMakeReturn
    /\ IdleRealIndexer
    /\ IdleInterval
    /\ IdleIndFunc
    /\ IdleDissonance
    /\ IdleConstruct
    /\ IdleTables
    /\ IdlePool
    /\ IdleRan
    /\ IdleWorkflow

\* piece.get('horizontal_interval', settings=settings_)
GetHorizontal(settings_) ==
    /\ got = <<>>
    /\ settings_.kind = "dict" =>
          \A k \in DOMAIN settings_.items : settings_.items[k] \in SettingValues[k]
    /\ got' = <<[asked |-> "horizontal_interval", settings |-> settings_,
                 value |-> get_horizontal_interval(analyses["horizontal_interval"],
                                                   settings_)]>>
    /\ UNCHANGED <<analyses, executed>>
    /\ UNCHANGED outsidePiece

NextHorizontal == \E settings_ \in HorizontalSettings : GetHorizontal(settings_)

SpecHorizontal == InitHorizontal /\ [][NextHorizontal]_vars

\* the intervals of every part of the table are those of the kept table,
\* each at the offset of the interval before it and the first at 0.0
IsAttachBefore(frame, kept) ==
    /\ frame.kind = "frame"
    /\ Len(frame.columns) = Len(kept.columns)
    /\ \A c \in 1..Len(kept.columns) :
          LET was == dropna(ColumnSeries(kept, c))
              now == dropna(ColumnSeries(frame, c))
          IN  /\ Len(now) = Len(was)
              /\ \A k \in 1..Len(now) :
                    now[k][1] = IF k = 1 THEN 0 ELSE was[k - 1][1]

\* C29: a request for the horizontal intervals of a piece with settings
\* that hold 'horiz_attach_later' False returns a table in the
\* attach-before form, whatever the other interval settings are: in every
\* part the intervals are moved to the offset of the interval before and
\* the first one to 0.0.
C29_AttachBefore ==
    (/\ got # <<>>
     /\ got[1].asked = "horizontal_interval"
     /\ "settings" \in DOMAIN got[1]
     /\ got[1].settings.kind = "dict"
     /\ "horiz_attach_later" \in DOMAIN got[1].settings.items
     /\ got[1].settings.items["horiz_attach_later"] = "False")
        => IsAttachBefore(got[1].value, analyses["horizontal_interval"])

-----------------------------------------------------------------------------
(* WorkflowManager                                                         *)

MaxCalls == 3        \* at most MaxCalls calls are made on a WorkflowManager
MaxPieces == 1       \* a WorkflowManager holds at most MaxPieces pieces

\* WorkflowManager._experiments_list
experiments_list ==
    <<<<"i", "n", "t", "e", "r", "v", "a", "l", "s">>,
      <<"i", "n", "t", "e", "r", "v", "a", "l", " ", "n", "-", "g", "r", "a",
        "m", "s">>>>

\* instructions that are not in the list
Ngrams ==
    <<"n", "-", "g", "r", "a", "m", "s">>

IntervalNgrams ==
    <<"i", "n", "t", "e", "r", "v", "a", "l", "-", "n", "g", "r", "a", "m",
      "s">>

IntervalsForAll ==
    <<"i", "n", "t", "e", "r", "v", "a", "l", "s", " ", "f", "o", "r", " ",
      "a", "l", "l">>

\* "s.startswith(prefix)"
startswith(s, prefix) ==
    Len(s) >= Len(prefix) /\ SubSeq(s, 1, Len(prefix)) = prefix

\* "min([len(x) for x in WorkflowManager._experiments_list])"
ShortestExperiment ==
    CHOOSE n \in {Len(experiments_list[i]) : i \in DOMAIN experiments_list} :
        \A i \in DOMAIN experiments_list : n <= Len(experiments_list[i])

\* WorkflowManager.__init__ with a list of pieces
WorkflowManagerInit(pieces_) ==
    [_settings |-> [i \in 1..pieces_ |->
                       [k \in {"offset interval", "voice combinations", "filter repeats"} |->
                           IF k = "filter repeats" THEN "False" ELSE "None"]],
     _shared_settings |->
        [k \in {"n", "continuer", "mark singles", "interval quality",
                "simple intervals", "include rests", "count frequency"} |->
            CASE k = "n" -> "2"
              [] k = "continuer" -> "dynamic quality"
              [] k = "count frequency" -> "True"
              [] OTHER -> "False"],
     _previous_exp |-> None,
     _result |-> "None",
     _loaded |-> FALSE]

\* what a call on a manager gives: the manager after it and what the call
\* returned or raised
Ends(wm, how) == [manager |-> wm, outcome |-> how]

\* WorkflowManager.settings(index, field, value) of one piece
piece_settings(wm, index_, field_, value_) ==
    IF ~(0 <= index_ /\ index_ < Len(wm._settings)) THEN Ends(wm, Raise("IndexError"))
    ELSE IF field_ \notin DOMAIN wm._settings[index_ + 1]
    THEN Ends(wm, Raise("AttributeError"))
    ELSE IF value_ = "None" THEN Ends(wm, Returned(wm._settings[index_ + 1][field_]))
    ELSE IF field_ = "offset interval" /\ value_ = "0"
    THEN Ends([wm EXCEPT !._settings[index_ + 1][field_] = "None"], Returned("None"))
    ELSE Ends([wm EXCEPT !._settings[index_ + 1][field_] = value_], Returned("None"))

\* "for i in xrange(len(self._settings)): self.settings(i, field, value)"
RECURSIVE SetInPieces(_, _, _, _)
SetInPieces(wm, i, field_, value_) ==
    IF i >= Len(wm._settings) THEN Ends(wm, Returned("None"))
    ELSE LET one == piece_settings(wm, i, field_, value_)
         IN  IF one.outcome.kind = "raise" THEN one
             ELSE SetInPieces(one.manager, i + 1, field_, value_)

\* WorkflowManager.settings(index, field, value): the index is <<>> for
\* None and <<i>> for the integer i; the value "None" is None
settings_of(wm, index_, field_, value_) ==
    IF field_ \in DOMAIN wm._shared_settings
    THEN IF value_ = "None" THEN Ends(wm, Returned(wm._shared_settings[field_]))
         ELSE Ends([wm EXCEPT !._shared_settings[field_] = value_], Returned("None"))
    ELSE IF index_ = <<>>
    THEN IF value_ = "None" THEN Ends(wm, Raise("ValueError"))
         ELSE SetInPieces(wm, 0, field_, value_)
    ELSE piece_settings(wm, index_[1], field_, value_)

\* WorkflowManager.load(instruction)
load(wm, instruction_) ==
    IF instruction_ = "pieces" THEN Ends([wm EXCEPT !._loaded = TRUE], Returned("None"))
    ELSE IF instruction_ \in {"hdf5", "stata", "pickle"}
    THEN Ends(wm, Raise("NotImplementedError"))
    ELSE Ends(wm, Raise("RuntimeError"))

\* WorkflowManager.run(instruction); ended is how the experiment ends when
\* the run comes to it: with what _intervs or _interval_ngrams returns, or
\* with the error that one of them raises
run(wm, instruction_, ended) ==
    LET was_dynamic_quality == wm._shared_settings["continuer"] = "dynamic quality"
        first == IF was_dynamic_quality
                 THEN IF wm._shared_settings["interval quality"] \notin {"False", "None"}
                      THEN settings_of(wm, <<>>, "continuer", "P1").manager
                      ELSE settings_of(wm, <<>>, "continuer", "1").manager
                 ELSE wm
    IN  IF first._loaded # TRUE THEN Ends(first, Raise("RuntimeError"))
        ELSE IF Len(instruction_) < ShortestExperiment
        THEN Ends(first, Raise("RuntimeError"))
        ELSE IF \E e \in DOMAIN experiments_list :
                   startswith(instruction_, experiments_list[e])
        THEN LET which == CHOOSE e \in DOMAIN experiments_list :
                              /\ startswith(instruction_, experiments_list[e])
                              /\ \A d \in 1..(e - 1) :
                                    ~startswith(instruction_, experiments_list[d])
                 during == [first EXCEPT !._previous_exp = experiments_list[which]]
             IN  IF ended.kind = "raise"
                 THEN Ends([during EXCEPT !._result = "partial"], ended)
                 ELSE Ends([(IF was_dynamic_quality
                             THEN settings_of(during, <<>>, "continuer",
                                              "dynamic quality").manager
                             ELSE during) EXCEPT !._result = ended.value], ended)
        ELSE Ends(first, Raise("RuntimeError"))

\* the instructions given to run
Instructions ==
    {experiments_list[1], experiments_list[2], Ngrams, IntervalNgrams, IntervalsForAll}

\* a manager that has just been made for its pieces
InitWorkflow ==
    /\ \E pieces_ \in 0..MaxPieces : manager = WorkflowManagerInit(pieces_)
    /\ issued = <<>>
    /\ IdleMakeReturn
    /\ IdleRealIndexer
    /\ IdleInterval
    /\ IdleIndFunc
    /\ IdleDissonance
    /\ IdleConstruct
    /\ IdleTables
    /\ IdlePool
    /\ IdleRan
    /\ IdlePiece

\* workflow.load(instruction)
Load ==
    /\ Len(issued) < MaxCalls
    /\ \E instruction_ \in {"pieces", "hdf5", "scores"} :
       \E gives \in {load(manager, instruction_)} :
          /\ manager' = gives.manager
          /\ issued' = Append(issued, [op |-> "load", given |-> instruction_,
                                       outcome |-> gives.outcome])
    /\ UNCHANGED outsideWorkflow

\* workflow.settings(index, field, value)
Settings ==
    /\ Len(issued) < MaxCalls
    /\ \E index_ \in {<<>>} \cup {<<i>> : i \in 0..MaxPieces} :
       \E field_ \in {"continuer", "interval quality", "offset interval", "tempo"} :
       \E value_ \in {"None", "True", "False", "0", "dynamic quality"} :
       \E gives \in {settings_of(manager, index_, field_, value_)} :
          /\ field_ = "continuer" => value_ \in {"None", "dynamic quality"}
          /\ field_ # "continuer" => value_ # "dynamic quality"
          /\ field_ # "offset interval" => value_ # "0"
          /\ manager' = gives.manager
          /\ issued' = Append(issued, [op |-> "settings",
                                       given |-> <<index_, field_, value_>>,
                                       outcome |-> gives.outcome])
    /\ UNCHANGED outsideWorkflow

\* workflow.run(instruction)
Run_ ==
    /\ Len(issued) < MaxCalls
    /\ \E instruction_ \in Instructions :
       \E ended \in {Returned("post"), Raise("ValueError")} :
       \E gives \in {run(manager, instruction_, ended)} :
          /\ manager' = gives.manager
          /\ issued' = Append(issued, [op |-> "run", given |-> instruction_,
                                       outcome |-> gives.outcome])
    /\ UNCHANGED outsideWorkflow

NextWorkflow == Load \/ Settings \/ Run_

SpecWorkflow == InitWorkflow /\ [][NextWorkflow]_vars

\* the instruction is one that run knows
Recognised(instruction_) ==
    \E e \in DOMAIN experiments_list : startswith(instruction_, experiments_list[e])

\* C30: a call of run raises RuntimeError when load has not been called or
\* when the instruction is not recognised, and every call of run, whether
\* it returns or raises, leaves the shared settings as they were before
\* it: a 'continuer' of 'dynamic quality' is 'dynamic quality' afterwards.
C30_SettingsKept ==
    [][(Len(issued') > Len(issued) /\ issued'[Len(issued')].op = "run") =>
          /\ (~manager._loaded \/ ~Recognised(issued'[Len(issued')].given))
                => issued'[Len(issued')].outcome = Raise("RuntimeError")
          /\ manager'._shared_settings = manager._shared_settings]_vars

====
